---- MODULE Spec2Model ----
(***************************************************************************)
(* Training / verification loop of TrainLyapunovReLU                       *)
(* (neural_network_lyapunov/train_lyapunov.py).                            *)
(*                                                                         *)
(* Numbers.  Certificate objectives, tolerances and V are integers in      *)
(* units of 1e-6.  A loss scalar is the integer                            *)
(* MeanScale * DecayDen^MaxPool * (its value), so that the mean over a     *)
(* window and the powers of the decay rate 9/10 are exact.  States are one-dimensional integers, the network is         *)
(* x |-> relu * max(x, 0) with the single parameter relu.                  *)
(* Python's 0-based lists are 1-based sequences here: entry k of a Python  *)
(* list is entry k+1 of the sequence.                                      *)
(***************************************************************************)
EXTENDS Integers, Sequences, FiniteSets, TLC

VARIABLES
    self,      \* the TrainLyapunovReLU object's attributes
    relu,      \* parameters of lyapunov_hybrid_system.lyapunov_relu
    pc,        \* position of the running entry point
    args,      \* arguments of the running call
    oracle,    \* what the two MILP solves of the next total_loss return
    ret,       \* what the last total_loss call returned
    iter_count,
    positivity_state_samples,
    derivative_state_samples,
    derivative_state_samples_next,
    losses,
    lyapunov_positivity_mip_costs,
    lyapunov_derivative_mip_costs,
    project_gradient_mode,
    result,    \* what the entry point returned
    num_calls,     \* number of entry point invocations so far
    relu_at_call,  \* relu when the running entry point was invoked
    num_steps,     \* optimizer.step() calls of the running entry point
    num_loss_evals,\* total_loss calls of the running entry point
    grad_log,      \* gradient computations of the running entry point
    state_samples_next,
    best_loss,
    best_relu,
    num_increasing_iterations,
    previous_mip_loss,
    mip_loss,
    eval_log       \* per iteration of train_lyapunov_on_samples: the
                   \* parameters evaluated and the mip_loss computed

vars == <<self, relu, pc, args, oracle, ret, iter_count,
          positivity_state_samples, derivative_state_samples,
          derivative_state_samples_next, losses,
          lyapunov_positivity_mip_costs, lyapunov_derivative_mip_costs,
          project_gradient_mode, result, num_calls, relu_at_call,
          num_steps, num_loss_evals, grad_log, state_samples_next,
          best_loss, best_relu, num_increasing_iterations,
          previous_mip_loss, mip_loss, eval_log>>

onSamplesVars == <<state_samples_next, best_loss, best_relu,
                   num_increasing_iterations, previous_mip_loss, mip_loss,
                   eval_log>>

trainVars == <<iter_count, positivity_state_samples,
               derivative_state_samples, derivative_state_samples_next,
               losses, lyapunov_positivity_mip_costs,
               lyapunov_derivative_mip_costs, project_gradient_mode,
               result, num_calls, relu_at_call, num_steps, num_loss_evals,
               grad_log>>

(***************************************************************************)
(* Bounds                                                                  *)
(***************************************************************************)
MaxIter == 3          \* largest max_iterations
MaxAdvIter == 2       \* max_iterations of a run with augmentation
MaxSamples == 1       \* largest number of initial samples of a training run
MaxLen == 3           \* longest pool passed to a direct total_loss call
MaxWindow == 2        \* largest max_sample_pool_size
MaxPool == 2          \* largest lyapunov_*_mip_pool_solutions
MaxSol == 2           \* largest solCount a solve reports
MaxCalls == 2         \* entry point invocations on one object
MaxPlateau == 2       \* largest max_increasing_iterations

\* np.inf: larger than every loss of the model
Inf == 1000000000

\* Python's None, and a value that is not None
None == <<>>
Some(v) == <<v>>

StateVals == {-1, 0, 1}
ThetaVals == {-2, 1}
PosObjVals == {-2, -1, 0}
DerObjVals == {29, 30, 31}

Max(a, b) == IF a >= b THEN a ELSE b
Min(a, b) == IF a <= b THEN a ELSE b
Abs(a) == IF a >= 0 THEN a ELSE -a

RECURSIVE Pow(_, _)
Pow(b, e) == IF e = 0 THEN 1 ELSE b * Pow(b, e - 1)

RECURSIVE Fact(_)
Fact(n) == IF n = 0 THEN 1 ELSE n * Fact(n - 1)

RECURSIVE SumSeq(_)
SumSeq(s) == IF s = <<>> THEN 0 ELSE Head(s) + SumSeq(Tail(s))

SeqsUpTo(S, lo, hi) == UNION {[1..n -> S] : n \in lo..hi}

\* the decay rate 0.9 of __init__, as a fraction
DecayNum == 9
DecayDen == 10
MeanScale == Fact(Max(MaxWindow, MaxLen) + 1)

(***************************************************************************)
(* The System collaborator: an autonomous hybrid linear system with two    *)
(* modes, mode 0 on x >= 0 with x' = -x and mode 1 on x <= 0 with x' = 0.  *)
(***************************************************************************)
num_modes == 2
Modes == 0..(num_modes - 1)
SysP == [i \in Modes |-> IF i = 0 THEN -1 ELSE 1]
Sysq == [i \in Modes |-> 0]
SysA == [i \in Modes |-> IF i = 0 THEN -1 ELSE 0]
Sysg == [i \in Modes |-> 0]

InMode(i, x) == SysP[i] * x <= Sysq[i]

mode(x) ==
    IF \E i \in Modes : InMode(i, x)
    THEN CHOOSE i \in Modes : InMode(i, x) /\ \A j \in Modes : j < i => ~InMode(j, x)
    ELSE -1

step_forward_mode(x, m) == SysA[m] * x + Sysg[m]

step_forward(x) == step_forward_mode(x, mode(x))

(***************************************************************************)
(* The sample loss evaluators of lyapunov_hybrid_system.                   *)
(***************************************************************************)
network(theta, x) == theta * Max(x, 0)

LyapunovValue(theta, x, x_equilibrium, V_lambda) ==
    network(theta, x) - network(theta, x_equilibrium)
        + V_lambda * Abs(x - x_equilibrium)

hinge(z, margin) == Max(z + margin, 0)

\* MeanScale * mean_i hinge(-V(x_i) + eps2 * |x_i - x*|, margin)
lyapunov_positivity_loss_at_samples(theta, x_equilibrium, samples, V_lambda, epsilon, margin) ==
    (MeanScale * SumSeq([i \in 1..Len(samples) |->
        hinge(-LyapunovValue(theta, samples[i], x_equilibrium, V_lambda)
                  + epsilon * Abs(samples[i] - x_equilibrium), margin)]))
        \div Len(samples)

\* MeanScale * mean_i hinge(V(next_i) - V(x_i) + eps * V(x_i), margin)
lyapunov_derivative_loss_at_samples_and_next_states(theta, V_lambda, epsilon, samples, samples_next, x_equilibrium, margin) ==
    (MeanScale * SumSeq([i \in 1..Len(samples) |->
        hinge(LyapunovValue(theta, samples_next[i], x_equilibrium, V_lambda)
                  - LyapunovValue(theta, samples[i], x_equilibrium, V_lambda)
                  + epsilon * LyapunovValue(theta, samples[i], x_equilibrium,
                                            V_lambda), margin)]))
        \div Len(samples)

(***************************************************************************)
(* The Verifier collaborator.  A solved MILP is the record of what Gurobi  *)
(* reports: pool holds the objectives of the solutions of the pool in the  *)
(* reported order (best first), x the state of the best solution, gamma    *)
(* (derivative MILP only) the mode selection binaries in percent.          *)
(***************************************************************************)
ObjVal(mip) == mip.pool[1]
solCount(mip) == Len(mip.pool)

compute_objective_from_mip_data_and_solution(mip, solution_number) ==
    mip.pool[solution_number + 1]

IsWorsening(pool, sense) ==
    \A i \in 1..(Len(pool) - 1) : sense * pool[i] <= sense * pool[i + 1]

OneHot == {g \in [Modes -> {0, 100}] : Cardinality({i \in Modes : g[i] = 100}) = 1}

PositivityPools == {p \in SeqsUpTo(PosObjVals, 1, MaxSol) : IsWorsening(p, 1)}
DerivativePools == {p \in SeqsUpTo(DerObjVals, 1, MaxSol) : IsWorsening(p, -1)}

(***************************************************************************)
(* total_loss                                                              *)
(***************************************************************************)
\* a faulty variant: the per-call weight is ignored
set_weight_IgnoresOverride(val, default_val) == default_val

\* lines 240-241
set_weight(val, default_val) == IF val /= None THEN val[1] ELSE default_val

\* Python's s[-k:]
LastK(s, k) ==
    IF k = 0 \/ k >= Len(s) THEN s ELSE SubSeq(s, Len(s) - k + 1, Len(s))

\* a faulty variant: the window is the first entries of the pool
SamplesInPool_FirstK(samples, max_sample_pool_size) ==
    IF Len(samples) > max_sample_pool_size
    THEN SubSeq(samples, 1, max_sample_pool_size)
    ELSE samples

\* the samples the sample loss is computed on (lines 247-251, 266-274)
SamplesInPool(samples, max_sample_pool_size) ==
    IF Len(samples) > max_sample_pool_size
    THEN LastK(samples, max_sample_pool_size)
    ELSE samples

\* a faulty variant: the next states are the first entries of their pool
NextSamplesInPool_FirstK(samples, samples_next, max_sample_pool_size) ==
    IF Len(samples) > max_sample_pool_size
    THEN SubSeq(samples_next, 1, max_sample_pool_size)
    ELSE samples_next

\* the next states the derivative sample loss is computed on (lines 266-274):
\* the test of line 266 is on the derivative pool
NextSamplesInPool(samples, samples_next, max_sample_pool_size) ==
    IF Len(samples) > max_sample_pool_size
    THEN LastK(samples_next, max_sample_pool_size)
    ELSE samples_next

\* a faulty variant: every solution of the pool has the full weight
DecayWeight_NoDecay(weight, mip_sol_number) ==
    weight * Pow(DecayDen, MaxPool)

\* weight * decay_rate^mip_sol_number, times Pow(DecayDen, MaxPool)
DecayWeight(weight, mip_sol_number) ==
    weight * Pow(DecayNum, mip_sol_number)
           * Pow(DecayDen, MaxPool - mip_sol_number)

\* the loop of lines 290-301 (sign = -1) and of lines 307-320 (sign = 1),
\* from mip_sol_number on, with the loss accumulated so far
RECURSIVE MipLossLoop(_, _, _, _, _, _)
MipLossLoop(mip, weight, pool_solutions, sign, mip_sol_number, acc) ==
    IF mip_sol_number >= pool_solutions THEN acc
    ELSE IF mip_sol_number < solCount(mip)
         THEN MipLossLoop(mip, weight, pool_solutions, sign,
                  mip_sol_number + 1,
                  acc + DecayWeight(weight, mip_sol_number) * sign *
                      compute_objective_from_mip_data_and_solution(
                          mip, mip_sol_number))
         ELSE MipLossLoop(mip, weight, pool_solutions, sign,
                  mip_sol_number + 1, acc)

\* a faulty variant: the loop also runs for a zero weight
ExtractedSolutions_Unguarded(mip, weight, pool_solutions) ==
    {j \in 0..(pool_solutions - 1) : j < solCount(mip)}

\* the solutions whose objective the loop extracts
ExtractedSolutions(mip, weight, pool_solutions) ==
    IF weight /= 0
    THEN {j \in 0..(pool_solutions - 1) : j < solCount(mip)}
    ELSE {}

\* np.argwhere(gamma > 0.99)[0][0]
AdversarialMode(gamma) ==
    CHOOSE i \in Modes : gamma[i] > 99 /\ \A j \in Modes : j < i => gamma[j] <= 99

Repeat(e, n) == [i \in 1..n |-> e]

\* a faulty variant: a MILP whose certificate weight is zero is not solved
MilpSolves_SkipsUnweighted(slf) ==
    (IF slf.lyapunov_positivity_mip_cost_weight /= 0 THEN <<"positivity_mip.optimize">> ELSE <<>>)
    \o (IF slf.lyapunov_derivative_mip_cost_weight /= 0 THEN <<"derivative_mip.optimize">> ELSE <<>>)

\* lines 187-215: the two MILPs are built and solved, in this order
MilpSolves(slf) == <<"positivity_mip.optimize", "derivative_mip.optimize">>

\* lines 288-301 and 305-320: a certificate loss
MipCostLoss(mip, weight, pool_solutions, sign) ==
    IF weight /= 0
    THEN MeanScale * MipLossLoop(mip, weight, pool_solutions, sign, 0, 0)
    ELSE 0

\* a faulty variant: the adversarial state is always stepped in the mode of
\* index 0, whatever the solution selects
AdversarialNext_FirstMode(derivative_mip) ==
    step_forward_mode(derivative_mip.x, 0)

\* lines 335-341: the next state of the adversarial state of the derivative
\* MILP, in the mode its solution selects
AdversarialNext(derivative_mip) ==
    step_forward_mode(derivative_mip.x, AdversarialMode(derivative_mip.gamma))

\* a faulty variant: the adversarial state is put in front of the pool
CatAdversarial_Front(samples, adversarial_state) ==
    <<adversarial_state>> \o samples

\* lines 342-344, 345-347: torch.cat of a pool and an adversarial state
CatAdversarial(samples, adversarial_state) ==
    Append(samples, adversarial_state)

\* a faulty variant: the next state is not appended
CatAdversarialNext_Dropped(samples_next, adversarial_next) ==
    samples_next

\* lines 348-350: torch.cat of the next-state pool and the next state
CatAdversarialNext(samples_next, adversarial_next) ==
    Append(samples_next, adversarial_next)

\* a faulty variant: the sample losses read the pools after the adversarial
\* state was appended
PoolRead_AfterAppend(samples, adversarial_state, adversarial) ==
    IF adversarial THEN Append(samples, adversarial_state) ELSE samples

\* lines 245-251, 264-274: the pool the sample losses read is the one
\* total_loss was called with
PoolRead(samples, adversarial_state, adversarial) == samples

TotalLoss(slf, theta, pos_samples, der_samples, der_samples_next, w_pos_sample, w_der_sample, w_pos_mip, w_der_mip, orc) ==
    LET positivity_mip == orc.positivity
        derivative_mip == orc.derivative
        pos_sample_w == set_weight(w_pos_sample,
                            slf.lyapunov_positivity_sample_cost_weight)
        pos_eval == pos_sample_w /= 0 /\ Len(pos_samples) > 0
        pos_in_pool ==
            SamplesInPool(PoolRead(pos_samples, positivity_mip.x,
                              slf.add_adversarial_state_to_training),
                          slf.max_sample_pool_size)
        positivity_sample_loss ==
            IF pos_eval
            THEN pos_sample_w * Pow(DecayDen, MaxPool) *
                 lyapunov_positivity_loss_at_samples(
                     theta, slf.x_equilibrium, pos_in_pool, slf.V_lambda,
                     slf.lyapunov_positivity_epsilon,
                     slf.lyapunov_positivity_sample_margin)
            ELSE 0
        der_sample_w == set_weight(w_der_sample,
                            slf.lyapunov_derivative_sample_cost_weight)
        der_eval == der_sample_w /= 0 /\ Len(der_samples) > 0
        der_in_pool ==
            SamplesInPool(PoolRead(der_samples, derivative_mip.x,
                              slf.add_adversarial_state_to_training),
                          slf.max_sample_pool_size)
        der_next_in_pool ==
            NextSamplesInPool(PoolRead(der_samples, derivative_mip.x,
                                  slf.add_adversarial_state_to_training),
                              PoolRead(der_samples_next,
                                  AdversarialNext(derivative_mip),
                                  slf.add_adversarial_state_to_training),
                              slf.max_sample_pool_size)
        derivative_sample_loss ==
            IF der_eval
            THEN der_sample_w * Pow(DecayDen, MaxPool) *
                 lyapunov_derivative_loss_at_samples_and_next_states(
                     theta, slf.V_lambda, slf.lyapunov_derivative_epsilon,
                     der_in_pool, der_next_in_pool, slf.x_equilibrium,
                     slf.lyapunov_derivative_sample_margin)
            ELSE 0
        pos_mip_w == set_weight(w_pos_mip,
                         slf.lyapunov_positivity_mip_cost_weight)
        positivity_mip_loss ==
            MipCostLoss(positivity_mip, pos_mip_w,
                slf.lyapunov_positivity_mip_pool_solutions, -1)
        der_mip_w == set_weight(w_der_mip,
                         slf.lyapunov_derivative_mip_cost_weight)
        derivative_mip_loss ==
            MipCostLoss(derivative_mip, der_mip_w,
                slf.lyapunov_derivative_mip_pool_solutions, 1)
        adversarial == slf.add_adversarial_state_to_training
        derivative_mip_adversarial_next == AdversarialNext(derivative_mip)
    IN  [loss |-> positivity_sample_loss + derivative_sample_loss
                      + positivity_mip_loss + derivative_mip_loss,
         positivity_objective |-> ObjVal(positivity_mip),
         derivative_objective |-> ObjVal(derivative_mip),
         positivity_sample_loss |-> positivity_sample_loss,
         derivative_sample_loss |-> derivative_sample_loss,
         positivity_mip_loss |-> positivity_mip_loss,
         derivative_mip_loss |-> derivative_mip_loss,
         positivity_state_samples |->
             IF adversarial
             THEN CatAdversarial(pos_samples, positivity_mip.x)
             ELSE pos_samples,
         derivative_state_samples |->
             IF adversarial
             THEN CatAdversarial(der_samples, derivative_mip.x)
             ELSE der_samples,
         derivative_state_samples_next |->
             IF adversarial
             THEN CatAdversarialNext(der_samples_next,
                      derivative_mip_adversarial_next)
             ELSE der_samples_next,
         \* the collaborator calls the body makes, in the order it makes them
         calls |->
             MilpSolves(slf)
             \o (IF pos_eval THEN <<"lyapunov_positivity_loss_at_samples">>
                 ELSE <<>>)
             \o (IF der_eval
                 THEN <<"lyapunov_derivative_loss_at_samples_and_next_states">>
                 ELSE <<>>)
             \o Repeat("positivity_mip.compute_objective",
                    Cardinality(ExtractedSolutions(positivity_mip, pos_mip_w,
                        slf.lyapunov_positivity_mip_pool_solutions)))
             \o Repeat("derivative_mip.compute_objective",
                    Cardinality(ExtractedSolutions(derivative_mip, der_mip_w,
                        slf.lyapunov_derivative_mip_pool_solutions)))
             \o (IF adversarial THEN <<"step_forward">> ELSE <<>>),
         \* the samples handed to the sample loss evaluators
         positivity_state_samples_in_pool |->
             IF pos_eval THEN pos_in_pool ELSE <<>>,
         derivative_state_samples_in_pool |->
             IF der_eval THEN der_in_pool ELSE <<>>,
         derivative_state_samples_next_in_pool |->
             IF der_eval THEN der_next_in_pool ELSE <<>>]

(***************************************************************************)
(* The object after __init__ (lines 73-139), with the attributes a caller  *)
(* sets before training.                                                   *)
(***************************************************************************)
NewSelf(max_iterations, weights, pos_pool_solutions, der_pool_solutions, method, adversarial, pool_size) ==
    [V_lambda |-> 1,
     x_equilibrium |-> 0,
     max_iterations |-> max_iterations,
     lyapunov_positivity_sample_cost_weight |-> weights[1],
     lyapunov_positivity_sample_margin |-> 0,
     lyapunov_derivative_sample_cost_weight |-> weights[2],
     lyapunov_derivative_sample_margin |-> 0,
     lyapunov_positivity_mip_cost_weight |-> weights[3],
     lyapunov_positivity_mip_pool_solutions |-> pos_pool_solutions,
     lyapunov_derivative_mip_cost_weight |-> weights[4],
     lyapunov_derivative_mip_pool_solutions |-> der_pool_solutions,
     lyapunov_positivity_epsilon |-> 1,
     lyapunov_derivative_epsilon |-> 1,
     lyapunov_positivity_convergence_tol |-> 1,
     lyapunov_derivative_convergence_tol |-> 30,
     optimizer |-> "Adam",
     project_gradient_method |-> method,
     add_adversarial_state_to_training |-> adversarial,
     max_sample_pool_size |-> pool_size]

DefaultWeights == <<1, 1, 10, 10>>

NextStates(samples) == [i \in 1..Len(samples) |-> step_forward(samples[i])]

\* what a solve of the derivative MILP can report: the state of the best
\* solution lies in the mode its binaries select
DerivativeStates == {sg \in StateVals \X OneHot : InMode(AdversarialMode(sg[2]), sg[1])}

Oracles(pos_pools, pos_states, der_pools, der_states) ==
    {[positivity |-> [pool |-> pp, x |-> px],
      derivative |-> [pool |-> dp, x |-> dsg[1], gamma |-> dsg[2]]] :
        pp \in pos_pools, px \in pos_states, dp \in der_pools, dsg \in der_states}

AnOracle == CHOOSE o \in Oracles({<<-2>>}, {1}, {<<31>>}, {<<1, [i \in Modes |-> IF i = 0 THEN 100 ELSE 0]>>}) : TRUE

\* a weight of the object and the per-call override of it
WeightAndOverride(nonzero) == {<<nonzero, None>>, <<0, None>>, <<nonzero, Some(0)>>, <<0, Some(nonzero)>>}

TotalLossArgs(pos_samples, der_samples, der_samples_next, overrides) ==
    [positivity_state_samples |-> pos_samples,
     derivative_state_samples |-> der_samples,
     derivative_state_samples_next |-> der_samples_next,
     lyapunov_positivity_sample_cost_weight |-> overrides[1],
     lyapunov_derivative_sample_cost_weight |-> overrides[2],
     lyapunov_positivity_mip_cost_weight |-> overrides[3],
     lyapunov_derivative_mip_cost_weight |-> overrides[4]]

NoOverrides == <<None, None, None, None>>

IdleTrainVars ==
    /\ iter_count = 0
    /\ positivity_state_samples = <<>>
    /\ derivative_state_samples = <<>>
    /\ derivative_state_samples_next = <<>>
    /\ losses = <<>>
    /\ lyapunov_positivity_mip_costs = <<>>
    /\ lyapunov_derivative_mip_costs = <<>>
    /\ project_gradient_mode = "unbound"
    /\ result = None
    /\ num_calls = 0
    /\ relu_at_call = relu
    /\ num_steps = 0
    /\ num_loss_evals = 0
    /\ grad_log = <<>>

IdleOnSamplesVars ==
    /\ state_samples_next = <<>>
    /\ best_loss = Inf
    /\ best_relu = None
    /\ num_increasing_iterations = 0
    /\ previous_mip_loss = Inf
    /\ mip_loss = 0
    /\ eval_log = <<>>

(***************************************************************************)
(* Direct calls of total_loss.  The inputs of a call are drawn from three  *)
(* families: the sample pools and the sample weights vary, the solves and  *)
(* the certificate weights vary, the adversarial states vary.              *)
(***************************************************************************)
InitLossSamples ==
    \E ws1 \in WeightAndOverride(1), ws2 \in WeightAndOverride(1), K \in 1..MaxWindow, samples \in SeqsUpTo(StateVals, 0, MaxLen), which \in {1, 2} :
        /\ self = NewSelf(0, <<ws1[1], ws2[1], 10, 10>>, 1, 1, "NONE", FALSE, K)
        /\ args = TotalLossArgs(IF which = 1 THEN samples ELSE <<1, -1>>,
                                IF which = 2 THEN samples ELSE <<1, -1>>,
                                IF which = 2 THEN NextStates(samples) ELSE NextStates(<<1, -1>>),
                                <<ws1[2], ws2[2], None, None>>)
        /\ oracle = AnOracle

InitLossMip ==
    \E wm1 \in WeightAndOverride(10), wm2 \in WeightAndOverride(10), P \in 0..MaxPool, which \in {1, 2} :
        /\ self = NewSelf(0, <<1, 1, wm1[1], wm2[1]>>, IF which = 1 THEN P ELSE MaxPool, IF which = 2 THEN P ELSE MaxPool, "NONE", FALSE, 1)
        /\ args = TotalLossArgs(<<1>>, <<1>>, NextStates(<<1>>), <<None, None, wm1[2], wm2[2]>>)
        /\ oracle \in Oracles(IF which = 1 THEN PositivityPools ELSE {<<-2>>}, {1}, IF which = 2 THEN DerivativePools ELSE {<<31>>}, {<<1, [i \in Modes |-> IF i = 0 THEN 100 ELSE 0]>>})

InitLossAdversarial ==
    \E pos_samples \in SeqsUpTo(StateVals, 0, 1), der_samples \in SeqsUpTo(StateVals, 0, 1) :
        /\ self = NewSelf(0, DefaultWeights, 1, 1, "NONE", TRUE, 1)
        /\ args = TotalLossArgs(pos_samples, der_samples, NextStates(der_samples), NoOverrides)
        /\ oracle \in Oracles({<<-2>>}, StateVals, {<<31>>}, DerivativeStates)

InitLoss ==
    /\ relu \in ThetaVals
    /\ pc = "total_loss"
    /\ ret = None
    /\ IdleTrainVars
    /\ IdleOnSamplesVars
    /\ (InitLossSamples \/ InitLossMip \/ InitLossAdversarial)

\* one call of total_loss (lines 141-357)
TotalLossCall ==
    /\ pc = "total_loss"
    /\ Len(args.derivative_state_samples_next) = Len(args.derivative_state_samples)
    /\ ret' = TotalLoss(self, relu, args.positivity_state_samples,
                        args.derivative_state_samples,
                        args.derivative_state_samples_next,
                        args.lyapunov_positivity_sample_cost_weight,
                        args.lyapunov_derivative_sample_cost_weight,
                        args.lyapunov_positivity_mip_cost_weight,
                        args.lyapunov_derivative_mip_cost_weight, oracle)
    /\ pc' = "total_loss_returned"
    /\ UNCHANGED <<self, relu, args, oracle>>
    /\ UNCHANGED trainVars
    /\ UNCHANGED onSamplesVars

NextLoss == TotalLossCall

SpecLoss == InitLoss /\ [][NextLoss]_vars

(***************************************************************************)
(* train (lines 441-540)                                                   *)
(***************************************************************************)
\* a faulty variant: the loop stops one iteration early
LoopContinues_OffByOne(iteration, max_iterations) == iteration + 1 < max_iterations

\* the loop condition of line 473
LoopContinues(iteration, max_iterations) == iteration < max_iterations

\* a faulty variant: the positivity test is strict
Converged_Strict(slf, positivity_mip_cost, derivative_mip_cost) ==
    /\ positivity_mip_cost > -slf.lyapunov_positivity_convergence_tol
    /\ derivative_mip_cost <= slf.lyapunov_derivative_convergence_tol

\* the convergence test of lines 500-503
Converged(slf, positivity_mip_cost, derivative_mip_cost) ==
    /\ positivity_mip_cost >= -slf.lyapunov_positivity_convergence_tol
    /\ derivative_mip_cost <= slf.lyapunov_derivative_convergence_tol

\* a faulty variant: ALTERNATE starts with LOSS1
NextProjectGradientMode_StartsLoss1(method, iteration, current_mode) ==
    IF method = "SUM" THEN "BOTH"
    ELSE IF method = "ALTERNATE"
         THEN IF iteration = 0 THEN "LOSS1"
              ELSE IF current_mode = "LOSS2" THEN "LOSS1" ELSE "LOSS2"
    ELSE IF method = "EMPHASIZE_POSITIVITY" THEN "EMPHASIZE_LOSS1"
    ELSE current_mode

\* the assignments to project_gradient_mode of lines 507-522
NextProjectGradientMode(method, iteration, current_mode) ==
    IF method = "SUM" THEN "BOTH"
    ELSE IF method = "ALTERNATE"
         THEN IF iteration = 0 THEN "LOSS2"
              ELSE IF current_mode = "LOSS2" THEN "LOSS1" ELSE "LOSS2"
    ELSE IF method = "EMPHASIZE_POSITIVITY" THEN "EMPHASIZE_LOSS1"
    ELSE current_mode

\* a faulty variant: the projection is given the derivative losses first
GradientCall_SwappedLosses(method, mode_of_call, r) ==
    IF method = "NONE"
    THEN [fn |-> "loss.backward", mode |-> "unbound", loss1 |-> r.loss, loss2 |-> 0]
    ELSE [fn |-> "project_gradient", mode |-> mode_of_call,
          loss1 |-> r.derivative_sample_loss + r.derivative_mip_loss,
          loss2 |-> r.positivity_sample_loss + r.positivity_mip_loss]

\* the gradient computation of lines 523-530
GradientCall(method, mode_of_call, r) ==
    IF method = "NONE"
    THEN [fn |-> "loss.backward", mode |-> "unbound", loss1 |-> r.loss, loss2 |-> 0]
    ELSE [fn |-> "project_gradient", mode |-> mode_of_call,
          loss1 |-> r.positivity_sample_loss + r.positivity_mip_loss,
          loss2 |-> r.derivative_sample_loss + r.derivative_mip_loss]

\* the solves of one iteration of a training run.  The states of the
\* solutions are read only when they are appended to the pools.
TrainPosObjVals == {-2, -1}
TrainDerObjVals == {30, 31}
TrainOracles(slf) ==
    IF slf.add_adversarial_state_to_training
    THEN Oracles({<<-2>>, <<-1, -1>>}, {-1, 1}, {<<30>>}, DerivativeStates)
    ELSE Oracles({<<v>> : v \in TrainPosObjVals}, {1}, {<<v>> : v \in TrainDerObjVals}, {<<1, [i \in Modes |-> IF i = 0 THEN 100 ELSE 0]>>})

Methods == {"NONE", "SUM", "ALTERNATE", "EMPHASIZE_POSITIVITY"}

\* training runs without augmentation: the policy and the budget vary
InitTrainPlain ==
    \E n \in 0..MaxIter, method \in Methods :
        self = NewSelf(n, DefaultWeights, 1, 1, method, FALSE, MaxWindow)

\* training runs with augmentation: the window and the pools vary
InitTrainAdversarial ==
    \E K \in 1..MaxWindow :
        self = NewSelf(MaxAdvIter, DefaultWeights, MaxPool, 1, "NONE", TRUE, K)

Init ==
    /\ relu \in ThetaVals
    /\ pc = "idle"
    /\ args = None
    /\ oracle = None
    /\ ret = None
    /\ IdleTrainVars
    /\ IdleOnSamplesVars
    /\ (InitTrainPlain \/ InitTrainAdversarial)

\* lines 453, 457: the optimizers train knows
TrainOptimizers == {"Adam", "SGD"}

\* lines 441-472: the pools, the optimizer and the histories
TrainCall ==
    /\ pc \in {"idle", "returned"}
    /\ num_calls < MaxCalls
    /\ self.optimizer \in TrainOptimizers
    /\ \E state_samples_all \in SeqsUpTo(StateVals, 1, MaxSamples) :
          /\ args' = [state_samples_all |-> state_samples_all]
          /\ positivity_state_samples' = state_samples_all
          /\ derivative_state_samples' = state_samples_all
          /\ derivative_state_samples_next' = NextStates(state_samples_all)
    /\ iter_count' = 0
    /\ lyapunov_positivity_mip_costs' = Repeat(None, self.max_iterations)
    /\ lyapunov_derivative_mip_costs' = Repeat(None, self.max_iterations)
    /\ losses' = Repeat(None, self.max_iterations)
    /\ project_gradient_mode' = "unbound"
    /\ result' = None
    /\ ret' = None
    /\ oracle' = None
    /\ num_calls' = num_calls + 1
    /\ relu_at_call' = relu
    /\ num_steps' = 0
    /\ num_loss_evals' = 0
    /\ grad_log' = <<>>
    /\ pc' = "train_loop"
    /\ UNCHANGED <<self, relu>>
    /\ UNCHANGED onSamplesVars

\* lines 473-484: zero_grad, total_loss, the three histories
TrainEvaluateLoss ==
    /\ pc = "train_loop"
    /\ LoopContinues(iter_count, self.max_iterations)
    /\ \E orc \in TrainOracles(self) :
          LET r == TotalLoss(self, relu, positivity_state_samples,
                       derivative_state_samples,
                       derivative_state_samples_next,
                       None, None, None, None, orc)
          IN  /\ oracle' = orc
              /\ ret' = r
              /\ losses' = [losses EXCEPT ![iter_count + 1] = Some(r.loss)]
              /\ lyapunov_positivity_mip_costs' =
                     [lyapunov_positivity_mip_costs EXCEPT
                         ![iter_count + 1] = Some(r.positivity_objective)]
              /\ lyapunov_derivative_mip_costs' =
                     [lyapunov_derivative_mip_costs EXCEPT
                         ![iter_count + 1] = Some(r.derivative_objective)]
              /\ positivity_state_samples' = r.positivity_state_samples
              /\ derivative_state_samples' = r.derivative_state_samples
              /\ derivative_state_samples_next' =
                     r.derivative_state_samples_next
    /\ num_loss_evals' = num_loss_evals + 1
    /\ pc' = "train_check"
    /\ UNCHANGED <<self, relu, args, iter_count, project_gradient_mode,
                   result, num_calls, relu_at_call, num_steps, grad_log>>
    /\ UNCHANGED onSamplesVars

\* lines 500-506: converged, return the histories up to this iteration
TrainConverged ==
    /\ pc = "train_check"
    /\ Converged(self, lyapunov_positivity_mip_costs[iter_count + 1][1],
                 lyapunov_derivative_mip_costs[iter_count + 1][1])
    /\ result' = [converged |-> TRUE,
                  losses |-> SubSeq(losses, 1, iter_count + 1),
                  lyapunov_positivity_mip_costs |->
                      SubSeq(lyapunov_positivity_mip_costs, 1, iter_count + 1),
                  lyapunov_derivative_mip_costs |->
                      SubSeq(lyapunov_derivative_mip_costs, 1, iter_count + 1)]
    /\ pc' = "returned"
    /\ UNCHANGED <<self, relu, args, oracle, ret, iter_count,
                   positivity_state_samples, derivative_state_samples,
                   derivative_state_samples_next, losses,
                   lyapunov_positivity_mip_costs,
                   lyapunov_derivative_mip_costs, project_gradient_mode,
                   num_calls, relu_at_call, num_steps, num_loss_evals,
                   grad_log>>
    /\ UNCHANGED onSamplesVars

\* lines 507-536
\* a faulty variant: resolving the gradient also moves the parameters
TrainResolveGradient_MovesParameters ==
    /\ pc = "train_check"
    /\ ~Converged(self, lyapunov_positivity_mip_costs[iter_count + 1][1],
                  lyapunov_derivative_mip_costs[iter_count + 1][1])
    /\ project_gradient_mode' =
           NextProjectGradientMode(self.project_gradient_method, iter_count,
                                   project_gradient_mode)
    /\ grad_log' = Append(grad_log,
           GradientCall(self.project_gradient_method,
                        project_gradient_mode', ret))
    /\ pc' = "train_step"
    /\ relu' \in ThetaVals
    /\ UNCHANGED <<self, args, oracle, ret, iter_count,
                   positivity_state_samples, derivative_state_samples,
                   derivative_state_samples_next, losses,
                   lyapunov_positivity_mip_costs,
                   lyapunov_derivative_mip_costs, result, num_calls,
                   relu_at_call, num_steps, num_loss_evals>>
    /\ UNCHANGED onSamplesVars

\* lines 507-536: not converged, the gradient of this iteration
TrainResolveGradient ==
    /\ pc = "train_check"
    /\ ~Converged(self, lyapunov_positivity_mip_costs[iter_count + 1][1],
                  lyapunov_derivative_mip_costs[iter_count + 1][1])
    /\ project_gradient_mode' =
           NextProjectGradientMode(self.project_gradient_method, iter_count,
                                   project_gradient_mode)
    /\ grad_log' = Append(grad_log,
           GradientCall(self.project_gradient_method,
                        project_gradient_mode', ret))
    /\ pc' = "train_step"
    /\ UNCHANGED <<self, relu, args, oracle, ret, iter_count,
                   positivity_state_samples, derivative_state_samples,
                   derivative_state_samples_next, losses,
                   lyapunov_positivity_mip_costs,
                   lyapunov_derivative_mip_costs, result, num_calls,
                   relu_at_call, num_steps, num_loss_evals>>
    /\ UNCHANGED onSamplesVars

\* lines 537-538: the optimizer moves the parameters
TrainOptimizerStep ==
    /\ pc = "train_step"
    /\ relu' \in ThetaVals
    /\ num_steps' = num_steps + 1
    /\ iter_count' = iter_count + 1
    /\ pc' = "train_loop"
    /\ UNCHANGED <<self, args, oracle, ret, positivity_state_samples,
                   derivative_state_samples, derivative_state_samples_next,
                   losses, lyapunov_positivity_mip_costs,
                   lyapunov_derivative_mip_costs, project_gradient_mode,
                   result, num_calls, relu_at_call, num_loss_evals, grad_log>>
    /\ UNCHANGED onSamplesVars

\* lines 473, 539-540: the budget is used up
TrainExhausted ==
    /\ pc = "train_loop"
    /\ ~LoopContinues(iter_count, self.max_iterations)
    /\ result' = [converged |-> FALSE,
                  losses |-> losses,
                  lyapunov_positivity_mip_costs |->
                      lyapunov_positivity_mip_costs,
                  lyapunov_derivative_mip_costs |->
                      lyapunov_derivative_mip_costs]
    /\ pc' = "returned"
    /\ UNCHANGED <<self, relu, args, oracle, ret, iter_count,
                   positivity_state_samples, derivative_state_samples,
                   derivative_state_samples_next, losses,
                   lyapunov_positivity_mip_costs,
                   lyapunov_derivative_mip_costs, project_gradient_mode,
                   num_calls, relu_at_call, num_steps, num_loss_evals,
                   grad_log>>
    /\ UNCHANGED onSamplesVars

TrainRun ==
    \/ TrainEvaluateLoss
    \/ TrainConverged
    \/ TrainResolveGradient
    \/ TrainOptimizerStep
    \/ TrainExhausted

Next == TrainCall \/ TrainRun

Spec == Init /\ [][Next]_vars

\* the training runs whose termination is checked: every budget
InitFair ==
    /\ relu \in ThetaVals
    /\ pc = "idle"
    /\ args = None
    /\ oracle = None
    /\ ret = None
    /\ IdleTrainVars
    /\ IdleOnSamplesVars
    /\ \E n \in 0..MaxIter : self = NewSelf(n, DefaultWeights, 1, 1, "NONE", FALSE, MaxWindow)

\* a call that was made runs on: the loop is sequential code
FairSpec == InitFair /\ [][Next]_vars /\ WF_vars(TrainRun)

(***************************************************************************)
(* train_lyapunov_on_samples (lines 542-611)                               *)
(***************************************************************************)
\* lines 583-586
\* a faulty variant: the positivity objective enters with the wrong sign
MipLoss_PositivitySign(slf, lyapunov_positivity_mip_cost, lyapunov_derivative_mip_cost) ==
    slf.lyapunov_positivity_mip_cost_weight * lyapunov_positivity_mip_cost
        + slf.lyapunov_derivative_mip_cost_weight * lyapunov_derivative_mip_cost

\* lines 583-586
MipLoss(slf, lyapunov_positivity_mip_cost, lyapunov_derivative_mip_cost) ==
    slf.lyapunov_positivity_mip_cost_weight * (-lyapunov_positivity_mip_cost)
        + slf.lyapunov_derivative_mip_cost_weight * lyapunov_derivative_mip_cost

\* the solves of one iteration of train_lyapunov_on_samples: an objective
\* can lie on either side of zero
OnSamplesPosObjVals == {-2, 1}
OnSamplesDerObjVals == {-1, 30}
OnSamplesOracles ==
    Oracles({<<v>> : v \in OnSamplesPosObjVals}, {1}, {<<v>> : v \in OnSamplesDerObjVals}, {<<1, [i \in Modes |-> IF i = 0 THEN 100 ELSE 0]>>})

\* lines 581-582
\* a faulty variant: the certificate weights of the object are not overridden
OnSamplesMipWeights_NotForced == <<None, None>>

\* lines 581-582: the certificate weights passed to total_loss
OnSamplesMipWeights == <<Some(0), Some(0)>>

\* line 587
Improves(a_mip_loss, a_best_loss) == a_mip_loss < a_best_loss

\* line 591
\* a faulty variant: an equal mip_loss counts as an increase
IsIncreasing_OrEqual(a_mip_loss, a_previous_mip_loss) == a_mip_loss >= a_previous_mip_loss

\* line 591
IsIncreasing(a_mip_loss, a_previous_mip_loss) == a_mip_loss > a_previous_mip_loss

\* line 593
\* a faulty variant: the guard stops one increasing iteration too late
PlateauReached_Late(num_increasing, max_increasing_iterations) == num_increasing = max_increasing_iterations + 1

\* line 593
PlateauReached(num_increasing, max_increasing_iterations) == num_increasing = max_increasing_iterations

InitOnSamples ==
    /\ relu \in ThetaVals
    /\ pc = "idle"
    /\ args = None
    /\ oracle = None
    /\ ret = None
    /\ IdleTrainVars
    /\ IdleOnSamplesVars
    /\ \E adversarial \in BOOLEAN, weights \in {DefaultWeights, <<0, 1, 10, 0>>} :
          self = NewSelf(MaxIter, weights, 1, 1, "NONE", adversarial, MaxWindow)

\* lines 560-573
OnSamplesCall ==
    /\ pc \in {"idle", "returned", "raised"}
    /\ num_calls < MaxCalls
    /\ \E state_samples_all \in SeqsUpTo(StateVals, 1, MaxSamples), max_iterations \in 0..MaxIter, max_increasing_iterations \in 1..MaxPlateau :
          /\ args' = [state_samples_all |-> state_samples_all,
                      max_iterations |-> max_iterations,
                      max_increasing_iterations |-> max_increasing_iterations]
          /\ state_samples_next' = NextStates(state_samples_all)
    /\ best_loss' = Inf
    /\ best_relu' = None
    /\ num_increasing_iterations' = 0
    /\ previous_mip_loss' = Inf
    /\ mip_loss' = 0
    /\ eval_log' = <<>>
    /\ iter_count' = 0
    /\ result' = None
    /\ ret' = None
    /\ oracle' = None
    /\ num_calls' = num_calls + 1
    /\ relu_at_call' = relu
    /\ num_steps' = 0
    /\ num_loss_evals' = 0
    /\ grad_log' = <<>>
    /\ pc' = "on_samples_loop"
    /\ UNCHANGED <<self, relu, positivity_state_samples,
                   derivative_state_samples, derivative_state_samples_next,
                   losses, lyapunov_positivity_mip_costs,
                   lyapunov_derivative_mip_costs, project_gradient_mode>>

\* lines 574-586: zero_grad, total_loss without certificate weights, mip_loss
OnSamplesEvaluateLoss ==
    /\ pc = "on_samples_loop"
    /\ iter_count < args.max_iterations
    /\ \E orc \in OnSamplesOracles :
          LET r == TotalLoss(self, relu, args.state_samples_all,
                       args.state_samples_all, state_samples_next,
                       None, None, OnSamplesMipWeights[1],
                       OnSamplesMipWeights[2], orc)
          IN  /\ oracle' = orc
              /\ ret' = r
              /\ mip_loss' = MipLoss(self, r.positivity_objective,
                                     r.derivative_objective)
    /\ eval_log' = Append(eval_log, [relu |-> relu, mip_loss |-> mip_loss'])
    /\ num_loss_evals' = num_loss_evals + 1
    /\ pc' = "on_samples_best"
    /\ UNCHANGED <<self, relu, args, iter_count, result, num_calls,
                   relu_at_call, num_steps, grad_log,
                   positivity_state_samples, derivative_state_samples,
                   derivative_state_samples_next, losses,
                   lyapunov_positivity_mip_costs,
                   lyapunov_derivative_mip_costs, project_gradient_mode,
                   state_samples_next, best_loss, best_relu,
                   num_increasing_iterations, previous_mip_loss>>

\* lines 587-599: the best network, the counter, the early stop
OnSamplesBest ==
    /\ pc = "on_samples_best"
    /\ IF Improves(mip_loss, best_loss)
       THEN best_loss' = mip_loss /\ best_relu' = Some(relu)
       ELSE UNCHANGED <<best_loss, best_relu>>
    /\ IF IsIncreasing(mip_loss, previous_mip_loss)
       THEN /\ num_increasing_iterations' = num_increasing_iterations + 1
            /\ IF PlateauReached(num_increasing_iterations', args.max_increasing_iterations)
               THEN pc' = "on_samples_load" /\ UNCHANGED previous_mip_loss
               ELSE pc' = "on_samples_step" /\ previous_mip_loss' = mip_loss
       ELSE /\ num_increasing_iterations' = 0
            /\ previous_mip_loss' = mip_loss
            /\ pc' = "on_samples_step"
    /\ UNCHANGED <<self, relu, args, oracle, ret, iter_count, result,
                   num_calls, relu_at_call, num_steps, num_loss_evals,
                   grad_log, positivity_state_samples,
                   derivative_state_samples, derivative_state_samples_next,
                   losses, lyapunov_positivity_mip_costs,
                   lyapunov_derivative_mip_costs, project_gradient_mode,
                   state_samples_next, mip_loss, eval_log>>

\* lines 607-608: loss.backward(), optimizer.step()
OnSamplesOptimizerStep ==
    /\ pc = "on_samples_step"
    /\ grad_log' = Append(grad_log, GradientCall("NONE", "unbound", ret))
    /\ relu' \in ThetaVals
    /\ num_steps' = num_steps + 1
    /\ iter_count' = iter_count + 1
    /\ pc' = "on_samples_loop"
    /\ UNCHANGED <<self, args, oracle, ret, result, num_calls, relu_at_call,
                   num_loss_evals, positivity_state_samples,
                   derivative_state_samples, derivative_state_samples_next,
                   losses, lyapunov_positivity_mip_costs,
                   lyapunov_derivative_mip_costs, project_gradient_mode>>
    /\ UNCHANGED onSamplesVars

\* line 574: range(max_iterations) is used up
OnSamplesExhausted ==
    /\ pc = "on_samples_loop"
    /\ ~(iter_count < args.max_iterations)
    /\ pc' = "on_samples_load"
    /\ UNCHANGED <<self, relu, args, oracle, ret, iter_count, result,
                   num_calls, relu_at_call, num_steps, num_loss_evals,
                   grad_log, positivity_state_samples,
                   derivative_state_samples, derivative_state_samples_next,
                   losses, lyapunov_positivity_mip_costs,
                   lyapunov_derivative_mip_costs, project_gradient_mode>>
    /\ UNCHANGED onSamplesVars

\* lines 609-611: the caller's network becomes the best network
OnSamplesLoadBest ==
    /\ pc = "on_samples_load"
    /\ best_relu /= None
    /\ relu' = best_relu[1]
    /\ result' = None
    /\ pc' = "returned"
    /\ UNCHANGED <<self, args, oracle, ret, iter_count, num_calls,
                   relu_at_call, num_steps, num_loss_evals, grad_log,
                   positivity_state_samples, derivative_state_samples,
                   derivative_state_samples_next, losses,
                   lyapunov_positivity_mip_costs,
                   lyapunov_derivative_mip_costs, project_gradient_mode>>
    /\ UNCHANGED onSamplesVars

\* line 611 with best_relu never assigned: UnboundLocalError
OnSamplesLoadUnbound ==
    /\ pc = "on_samples_load"
    /\ best_relu = None
    /\ result' = <<"UnboundLocalError">>
    /\ pc' = "raised"
    /\ UNCHANGED <<self, relu, args, oracle, ret, iter_count, num_calls,
                   relu_at_call, num_steps, num_loss_evals, grad_log,
                   positivity_state_samples, derivative_state_samples,
                   derivative_state_samples_next, losses,
                   lyapunov_positivity_mip_costs,
                   lyapunov_derivative_mip_costs, project_gradient_mode>>
    /\ UNCHANGED onSamplesVars

OnSamplesRun ==
    \/ OnSamplesEvaluateLoss
    \/ OnSamplesBest
    \/ OnSamplesOptimizerStep
    \/ OnSamplesExhausted
    \/ OnSamplesLoadBest
    \/ OnSamplesLoadUnbound

NextOnSamples == OnSamplesCall \/ OnSamplesRun

SpecOnSamples == InitOnSamples /\ [][NextOnSamples]_vars

(***************************************************************************)
(* Claims about train                                                      *)
(***************************************************************************)
\* the certificate objectives recorded for iteration k are set
ObjectivesSet(k) ==
    /\ k + 1 <= Len(lyapunov_positivity_mip_costs)
    /\ lyapunov_positivity_mip_costs[k + 1] /= None
    /\ lyapunov_derivative_mip_costs[k + 1] /= None

\* positivity_objective >= -tol_pos and derivative_objective <= tol_der hold
\* for the objectives recorded for iteration k
PredicateAt(k) ==
    /\ ObjectivesSet(k)
    /\ lyapunov_positivity_mip_costs[k + 1][1] >= -self.lyapunov_positivity_convergence_tol
    /\ lyapunov_derivative_mip_costs[k + 1][1] <= self.lyapunov_derivative_convergence_tol

InTrain == pc \in {"train_loop", "train_check", "train_step"}

TrainReturned == pc = "returned" /\ result /= None

ReturnedHistories ==
    <<result.losses, result.lyapunov_positivity_mip_costs, result.lyapunov_derivative_mip_costs>>

\* C2: train terminates.  If the predicate never holds it runs exactly
\* max_iterations iterations, each with one loss evaluation and one optimizer
\* step, and returns converged = False with three histories of length
\* max_iterations without unset entries; if it converges at iteration k the
\* three histories have length k + 1.
C2_Safety ==
    /\ InTrain =>
          /\ num_steps = iter_count
          /\ num_loss_evals = iter_count + (IF pc = "train_loop" THEN 0 ELSE 1)
          /\ iter_count <= self.max_iterations
    /\ TrainReturned =>
          /\ num_steps = iter_count
          /\ \A i \in 1..3 : \A j \in 1..Len(ReturnedHistories[i]) : ReturnedHistories[i][j] /= None
          /\ ~result.converged =>
                /\ iter_count = self.max_iterations
                /\ num_loss_evals = self.max_iterations
                /\ \A i \in 1..3 : Len(ReturnedHistories[i]) = self.max_iterations
                /\ \A k \in 0..(self.max_iterations - 1) : ~PredicateAt(k)
          /\ result.converged =>
                /\ num_loss_evals = iter_count + 1
                /\ \A i \in 1..3 : Len(ReturnedHistories[i]) = iter_count + 1

C2_Terminates == [](C2_Safety) /\ (InTrain ~> TrainReturned)

\* train used up a budget of MaxIter iterations
C2_Witness ==
    /\ TrainReturned
    /\ ~result.converged
    /\ self.max_iterations = MaxIter
    /\ num_steps = MaxIter

\* C3: in every state of train, after the initialisation and after every
\* total_loss call, with and without augmentation, the derivative pool and
\* the next-state pool have the same number of entries.
C3_PoolsSameLength ==
    InTrain \/ TrainReturned =>
        Len(derivative_state_samples) = Len(derivative_state_samples_next)

\* a run with augmentation after its second total_loss call
C3_Witness ==
    /\ pc = "train_check"
    /\ self.add_adversarial_state_to_training
    /\ num_loss_evals = 2
    /\ Len(derivative_state_samples_next) = Len(args.state_samples_all) + 2

IsPrefix(s, t) == Len(s) <= Len(t) /\ SubSeq(t, 1, Len(s)) = s

\* by how much a pool grows in a step of train
PoolGrowth ==
    IF pc = "train_loop" /\ pc' = "train_check" /\ self.add_adversarial_state_to_training
    THEN 1 ELSE 0

\* C4: the pools are append-only.  A total_loss call returns pools that keep
\* the entries it was given, in order, and are longer by exactly one with
\* augmentation and by zero without; no other step of a run changes a pool.
C4_AppendOnly ==
    [][InTrain =>
          /\ IsPrefix(positivity_state_samples, positivity_state_samples')
          /\ IsPrefix(derivative_state_samples, derivative_state_samples')
          /\ IsPrefix(derivative_state_samples_next, derivative_state_samples_next')
          /\ Len(positivity_state_samples') = Len(positivity_state_samples) + PoolGrowth
          /\ Len(derivative_state_samples') = Len(derivative_state_samples) + PoolGrowth
          /\ Len(derivative_state_samples_next') = Len(derivative_state_samples_next) + PoolGrowth]_vars

\* a run with augmentation whose pools grew twice, by two different states
C4_Witness ==
    /\ InTrain
    /\ self.add_adversarial_state_to_training
    /\ Len(positivity_state_samples) = Len(args.state_samples_all) + 2
    /\ positivity_state_samples[Len(positivity_state_samples)] /= positivity_state_samples[Len(positivity_state_samples) - 1]

(***************************************************************************)
(* Claims about total_loss                                                 *)
(***************************************************************************)
MaxPrefix == 1

LossReturned == pc = "total_loss_returned"

\* the loss scalars total_loss returns
LossScalars(r) ==
    <<r.loss, r.positivity_sample_loss, r.derivative_sample_loss, r.positivity_mip_loss, r.derivative_mip_loss>>

\* the last k entries of a pool of at least k entries
Window(pool, k) == SubSeq(pool, Len(pool) - k + 1, Len(pool))

\* the call of the current state, with other pools
LossWithPools(pos_samples, der_samples, der_samples_next) ==
    TotalLoss(self, relu, pos_samples, der_samples, der_samples_next,
              args.lyapunov_positivity_sample_cost_weight,
              args.lyapunov_derivative_sample_cost_weight,
              args.lyapunov_positivity_mip_cost_weight,
              args.lyapunov_derivative_mip_cost_weight, oracle)

WeightOfCall(given, attribute) == IF given = None THEN attribute ELSE given[1]

\* C6: if the positivity sample weight of a call (the per-call weight, or
\* the attribute when none is given) is zero or the positivity pool is empty,
\* the positivity sample loss is exactly zero and
\* lyapunov_positivity_loss_at_samples is not called; likewise for the
\* derivative sample weight, the derivative pool and
\* lyapunov_derivative_loss_at_samples_and_next_states.
C6_ZeroSampleTermSkipped ==
    LossReturned =>
        /\ (\/ WeightOfCall(args.lyapunov_positivity_sample_cost_weight, self.lyapunov_positivity_sample_cost_weight) = 0
            \/ Len(args.positivity_state_samples) = 0) =>
              /\ ret.positivity_sample_loss = 0
              /\ \A i \in 1..Len(ret.calls) : ret.calls[i] /= "lyapunov_positivity_loss_at_samples"
        /\ (\/ WeightOfCall(args.lyapunov_derivative_sample_cost_weight, self.lyapunov_derivative_sample_cost_weight) = 0
            \/ Len(args.derivative_state_samples) = 0) =>
              /\ ret.derivative_sample_loss = 0
              /\ \A i \in 1..Len(ret.calls) : ret.calls[i] /= "lyapunov_derivative_loss_at_samples_and_next_states"

\* a call that gives a zero positivity sample weight to an object whose
\* attribute is not zero, with samples that would give a loss
C6_Witness ==
    /\ LossReturned
    /\ args.lyapunov_positivity_sample_cost_weight = Some(0)
    /\ self.lyapunov_positivity_sample_cost_weight /= 0
    /\ LossWithPools(args.positivity_state_samples, args.derivative_state_samples, args.derivative_state_samples_next).positivity_sample_loss = 0
    /\ TotalLoss(self, relu, args.positivity_state_samples, args.derivative_state_samples, args.derivative_state_samples_next, None, None, None, None, oracle).positivity_sample_loss > 0
    /\ ret.derivative_sample_loss > 0

\* how often a collaborator is called in a sequence of calls
CountCalls(calls, name) == Cardinality({i \in 1..Len(calls) : calls[i] = name})

PositivityMipWeightOfCall ==
    WeightOfCall(args.lyapunov_positivity_mip_cost_weight, self.lyapunov_positivity_mip_cost_weight)

DerivativeMipWeightOfCall ==
    WeightOfCall(args.lyapunov_derivative_mip_cost_weight, self.lyapunov_derivative_mip_cost_weight)

\* C7 as stated: if the weight of a certificate loss is zero, the loss is
\* exactly zero and the MILP of that loss is not solved.
C7_NoSolveForZeroWeight ==
    LossReturned =>
        /\ PositivityMipWeightOfCall = 0 =>
              /\ ret.positivity_mip_loss = 0
              /\ CountCalls(ret.calls, "positivity_mip.optimize") = 0
        /\ DerivativeMipWeightOfCall = 0 =>
              /\ ret.derivative_mip_loss = 0
              /\ CountCalls(ret.calls, "derivative_mip.optimize") = 0

\* C7, amended: if the weight of a certificate loss is zero, the loss is
\* exactly zero and no objective of a solution of the pool is extracted for
\* it, while the MILP of that loss is still solved exactly once, as it is for
\* every other weight.
C7_ZeroWeightTermZero ==
    LossReturned =>
        /\ CountCalls(ret.calls, "positivity_mip.optimize") = 1
        /\ CountCalls(ret.calls, "derivative_mip.optimize") = 1
        /\ PositivityMipWeightOfCall = 0 =>
              /\ ret.positivity_mip_loss = 0
              /\ CountCalls(ret.calls, "positivity_mip.compute_objective") = 0
        /\ DerivativeMipWeightOfCall = 0 =>
              /\ ret.derivative_mip_loss = 0
              /\ CountCalls(ret.calls, "derivative_mip.compute_objective") = 0

\* a call that gives a zero positivity certificate weight to an object whose
\* attribute is not zero, with a pool of two solutions to extract; the
\* derivative certificate loss of the same call is extracted and not zero
C7_Witness ==
    /\ LossReturned
    /\ args.lyapunov_positivity_mip_cost_weight = Some(0)
    /\ self.lyapunov_positivity_mip_cost_weight /= 0
    /\ self.lyapunov_positivity_mip_pool_solutions >= 2
    /\ Len(oracle.positivity.pool) >= 2
    /\ oracle.positivity.pool[1] /= 0
    /\ ret.positivity_mip_loss = 0
    /\ ret.derivative_mip_loss /= 0
    /\ CountCalls(ret.calls, "derivative_mip.compute_objective") = 1

\* r^j for the decay rate r = DecayNum / DecayDen, times Pow(DecayDen, MaxPool)
DecayPower(j) == Pow(DecayNum, j) * Pow(DecayDen, MaxPool - j)

\* sum over j in 0..min(P, S) - 1 of w * r^j * sign * objective_j, in the
\* units of the loss scalars
CertificateLoss(w, P, pool, sign) ==
    MeanScale * SumSeq([i \in 1..(IF P <= Len(pool) THEN P ELSE Len(pool)) |-> w * DecayPower(i - 1) * sign * pool[i]])

\* C9: for a non-zero certificate weight w, decay rate r, pool size P and S
\* solutions reported by the solve, the positivity certificate loss is the
\* sum over j in 0..min(P, S) - 1 of w * r^j * (-objective_j) and the
\* derivative certificate loss the sum over the same j of
\* w * r^j * objective_j, with the objectives in the order the solve reports
\* them; as many objectives are extracted as the sum has terms.
C9_CertificateLossFormula ==
    LossReturned =>
        /\ PositivityMipWeightOfCall /= 0 =>
              /\ ret.positivity_mip_loss =
                     CertificateLoss(PositivityMipWeightOfCall, self.lyapunov_positivity_mip_pool_solutions, oracle.positivity.pool, -1)
              /\ CountCalls(ret.calls, "positivity_mip.compute_objective") =
                     Min(self.lyapunov_positivity_mip_pool_solutions, Len(oracle.positivity.pool))
        /\ DerivativeMipWeightOfCall /= 0 =>
              /\ ret.derivative_mip_loss =
                     CertificateLoss(DerivativeMipWeightOfCall, self.lyapunov_derivative_mip_pool_solutions, oracle.derivative.pool, 1)
              /\ CountCalls(ret.calls, "derivative_mip.compute_objective") =
                     Min(self.lyapunov_derivative_mip_pool_solutions, Len(oracle.derivative.pool))

\* a call with fewer positivity solutions than the pool size and with two
\* derivative solutions of the same objective, both weights not zero
C9_Witness ==
    /\ LossReturned
    /\ PositivityMipWeightOfCall /= 0
    /\ DerivativeMipWeightOfCall /= 0
    /\ Len(oracle.positivity.pool) < self.lyapunov_positivity_mip_pool_solutions
    /\ ret.positivity_mip_loss > 0
    /\ self.lyapunov_derivative_mip_pool_solutions >= 2
    /\ Len(oracle.derivative.pool) >= 2
    /\ oracle.derivative.pool[1] = oracle.derivative.pool[2]
    /\ ret.derivative_mip_loss = MeanScale * DerivativeMipWeightOfCall * (DecayPower(0) + DecayPower(1)) * oracle.derivative.pool[1]

(***************************************************************************)
(* Direct calls of total_loss and runs of train_lyapunov_on_samples, for   *)
(* the claims about the calls of both.                                     *)
(***************************************************************************)
InitCalls == InitLoss \/ InitOnSamples

NextCalls == NextLoss \/ NextOnSamples

SpecCalls == InitCalls /\ [][NextCalls]_vars

IsSolve(call) == call \in {"positivity_mip.optimize", "derivative_mip.optimize"}

\* a total_loss call has just returned, to a direct caller or to an iteration
\* of train_lyapunov_on_samples
AfterTotalLoss == pc \in {"total_loss_returned", "on_samples_best"}

\* C8: every total_loss call solves exactly two MILPs, first the positivity
\* MILP and then the derivative MILP, each once, whatever the four weights
\* are, and returns the objectives of the two solves; so every iteration of
\* train_lyapunov_on_samples, which calls total_loss with both certificate
\* weights zero and gets zero certificate losses without any objective
\* extracted, still gets the two objectives and computes mip_loss from them.
C8_VerifierTwicePerLoss ==
    /\ AfterTotalLoss =>
          /\ SelectSeq(ret.calls, IsSolve) = <<"positivity_mip.optimize", "derivative_mip.optimize">>
          /\ ret.positivity_objective = oracle.positivity.pool[1]
          /\ ret.derivative_objective = oracle.derivative.pool[1]
    /\ pc = "on_samples_best" =>
          /\ num_loss_evals = iter_count + 1
          /\ ret.positivity_mip_loss = 0
          /\ ret.derivative_mip_loss = 0
          /\ CountCalls(ret.calls, "positivity_mip.compute_objective") = 0
          /\ CountCalls(ret.calls, "derivative_mip.compute_objective") = 0
          /\ mip_loss = self.lyapunov_positivity_mip_cost_weight * (-oracle.positivity.pool[1])
                            + self.lyapunov_derivative_mip_cost_weight * oracle.derivative.pool[1]

\* the second iteration of train_lyapunov_on_samples on an object whose
\* derivative certificate weight is zero: both MILPs were solved and mip_loss
\* is computed from the positivity objective
C8_Witness ==
    /\ pc = "on_samples_best"
    /\ iter_count = 1
    /\ self.lyapunov_derivative_mip_cost_weight = 0
    /\ self.lyapunov_positivity_mip_cost_weight /= 0
    /\ Len(ret.calls) >= 2
    /\ ret.calls[1] = "positivity_mip.optimize"
    /\ ret.calls[2] = "derivative_mip.optimize"
    /\ mip_loss = self.lyapunov_positivity_mip_cost_weight * (-ret.positivity_objective)
    /\ mip_loss > 0

(***************************************************************************)
(* Claims about the projection policy of train                             *)
(***************************************************************************)
\* the mode of the gradient of iteration k under ALTERNATE
AlternateMode(k) == IF k % 2 = 0 THEN "LOSS2" ELSE "LOSS1"

\* C10: under ALTERNATE, in every run of train, the gradient of iteration k
\* (k = 0, 1, ... counts the iterations of this run that reach the gradient)
\* is computed by project_gradient in mode LOSS2 for even k and LOSS1 for
\* odd k, whatever the losses and the objectives of the iterations are, with
\* the positivity losses as its first and the derivative losses as its
\* second loss; a new call of train starts again with LOSS2.
C10_AlternateStartsDerivative ==
    (InTrain \/ TrainReturned) /\ self.project_gradient_method = "ALTERNATE" =>
        /\ \A j \in 1..Len(grad_log) :
              /\ grad_log[j].fn = "project_gradient"
              /\ grad_log[j].mode = AlternateMode(j - 1)
        /\ pc = "train_step" =>
              /\ Len(grad_log) = iter_count + 1
              /\ project_gradient_mode = AlternateMode(iter_count)
              /\ grad_log[iter_count + 1].loss1 = ret.positivity_sample_loss + ret.positivity_mip_loss
              /\ grad_log[iter_count + 1].loss2 = ret.derivative_sample_loss + ret.derivative_mip_loss

\* the second run of train on an object with ALTERNATE, at its third
\* gradient, after iterations with different objectives
C10_Witness ==
    /\ pc = "train_step"
    /\ self.project_gradient_method = "ALTERNATE"
    /\ num_calls = 2
    /\ iter_count = 2
    /\ Len(grad_log) = 3
    /\ grad_log[1].mode = "LOSS2"
    /\ grad_log[2].mode = "LOSS1"
    /\ grad_log[3].mode = "LOSS2"
    /\ lyapunov_positivity_mip_costs[1] /= lyapunov_positivity_mip_costs[2]

(***************************************************************************)
(* Claims about train_lyapunov_on_samples                                  *)
(***************************************************************************)
\* an iteration of train_lyapunov_on_samples has evaluated its loss
OnSamplesEvaluated == pc = "on_samples_best"

\* weight_pos * max(0, -positivity_objective)
\*     + weight_der * max(0, derivative_objective)
ClampedMipLoss ==
    self.lyapunov_positivity_mip_cost_weight * Max(0, -ret.positivity_objective)
        + self.lyapunov_derivative_mip_cost_weight * Max(0, ret.derivative_objective)

\* C11 as stated: the scalar that selects the best snapshot and detects
\* plateaus is, at every iteration, weight_pos * max(0, -positivity_objective)
\* + weight_der * max(0, derivative_objective); it is never negative.
C11_ClampedScalar ==
    OnSamplesEvaluated =>
        /\ mip_loss = ClampedMipLoss
        /\ mip_loss >= 0

\* C11, amended: the scalar is, at every iteration,
\* weight_pos * (-positivity_objective) + weight_der * derivative_objective,
\* without clamping; it equals the clamped sum, and is not negative, whenever
\* positivity_objective <= 0 and derivative_objective >= 0, and it is smaller
\* than the clamped sum whenever a weighted objective lies on the other side
\* of zero.
C11_UnclampedScalar ==
    OnSamplesEvaluated =>
        /\ mip_loss = self.lyapunov_positivity_mip_cost_weight * (-ret.positivity_objective)
                          + self.lyapunov_derivative_mip_cost_weight * ret.derivative_objective
        /\ ret.positivity_objective <= 0 /\ ret.derivative_objective >= 0 =>
              mip_loss = ClampedMipLoss /\ mip_loss >= 0
        /\ (\/ self.lyapunov_positivity_mip_cost_weight > 0 /\ ret.positivity_objective > 0
            \/ self.lyapunov_derivative_mip_cost_weight > 0 /\ ret.derivative_objective < 0) =>
              mip_loss < ClampedMipLoss

\* an iteration whose objectives both satisfy their condition strictly: the
\* scalar is negative
C11_Witness ==
    /\ OnSamplesEvaluated
    /\ ret.positivity_objective > 0
    /\ ret.derivative_objective < 0
    /\ self.lyapunov_positivity_mip_cost_weight > 0
    /\ self.lyapunov_derivative_mip_cost_weight > 0
    /\ mip_loss < 0
    /\ ClampedMipLoss = 0

\* the earliest iteration (as an index of eval_log) whose mip_loss is the
\* smallest of the run so far
EarliestBest ==
    CHOOSE i \in 1..Len(eval_log) :
        /\ \A j \in 1..Len(eval_log) : eval_log[j].mip_loss >= eval_log[i].mip_loss
        /\ \A j \in 1..(i - 1) : eval_log[j].mip_loss > eval_log[i].mip_loss

\* the snapshot is the one of the last iteration whose mip_loss was strictly
\* smaller than that of every earlier iteration
SnapshotIsEarliestBest ==
    pc \in {"on_samples_step", "on_samples_load", "returned"} /\ eval_log /= <<>> =>
        /\ best_relu = Some(eval_log[EarliestBest].relu)
        /\ best_loss = eval_log[EarliestBest].mip_loss

\* a run of train_lyapunov_on_samples has ended
OnSamplesEnded == pc \in {"returned", "raised"}

\* C12: the best snapshot is replaced exactly at the iterations whose
\* mip_loss is strictly smaller than that of every earlier iteration, and
\* whenever a run ends, by the plateau stop or with max_iterations used up,
\* the parameters of the caller's network are those of that snapshot.
C12_BestSnapshotRestored ==
    /\ SnapshotIsEarliestBest
    /\ OnSamplesEnded =>
          /\ pc = "returned"
          /\ best_relu /= None
          /\ relu = best_relu[1]

\* iteration i (counted from 0) improved on the best mip_loss so far
ImprovedAt(i) ==
    \A j \in 1..i : eval_log[i + 1].mip_loss < eval_log[j].mip_loss

\* the mip_loss of each of the iterations i+1 .. i+M is larger than that of
\* the iteration before it
IncreasedAfter(i, M) ==
    /\ i + M + 1 <= Len(eval_log)
    /\ \A k \in (i + 1)..(i + M) : eval_log[k + 1].mip_loss > eval_log[k].mip_loss

\* C13: with plateau threshold M = max_increasing_iterations, if iteration i
\* improved on the best mip_loss and the mip_loss increases strictly at each
\* of the iterations i+1 .. i+M, the run stops in iteration i+M: no iteration
\* follows it, no optimizer step is taken in it, and the network the caller
\* holds on return is the snapshot of iteration i.
C13_PlateauStop ==
    \A i \in 0..(Len(eval_log) - 1) :
        ImprovedAt(i) /\ IncreasedAfter(i, args.max_increasing_iterations) =>
            /\ Len(eval_log) = i + args.max_increasing_iterations + 1
            /\ pc \in {"on_samples_best", "on_samples_load", "returned"}
            /\ num_steps = i + args.max_increasing_iterations
            /\ pc = "returned" => relu = eval_log[i + 1].relu

\* a run stopped by the plateau guard before max_iterations, whose best
\* iteration is not the first and whose network at the stop was another one
C13_Witness ==
    /\ pc = "returned"
    /\ Len(eval_log) = 3
    /\ Len(eval_log) < args.max_iterations + 1
    /\ ImprovedAt(1)
    /\ IncreasedAfter(1, args.max_increasing_iterations)
    /\ eval_log[3].relu /= eval_log[2].relu

\* the pools total_loss returns when it was given pool, in a call that solves orc
ReturnedPool(pool, adversarial_state) ==
    IF self.add_adversarial_state_to_training
    THEN CatAdversarial(pool, adversarial_state)
    ELSE pool

\* C14: train_lyapunov_on_samples evaluates the loss in every iteration on
\* the sample set it was called with, also when
\* add_adversarial_state_to_training is set, and with both certificate
\* weights zero: the loss that is back-propagated is the sum of the two
\* sample losses, with no certificate term.
C14_FixedSamplesNoCertificateTerm ==
    /\ pc \in {"on_samples_best", "on_samples_step"} =>
          /\ ret.positivity_state_samples =
                 ReturnedPool(args.state_samples_all, oracle.positivity.x)
          /\ ret.derivative_state_samples =
                 ReturnedPool(args.state_samples_all, oracle.derivative.x)
          /\ ret.derivative_state_samples_next =
                 ReturnedPool(NextStates(args.state_samples_all),
                     AdversarialNext(oracle.derivative))
          /\ self.lyapunov_positivity_sample_cost_weight /= 0 =>
                 ret.positivity_state_samples_in_pool =
                     SamplesInPool(args.state_samples_all, self.max_sample_pool_size)
          /\ self.lyapunov_derivative_sample_cost_weight /= 0 =>
                 ret.derivative_state_samples_in_pool =
                     SamplesInPool(args.state_samples_all, self.max_sample_pool_size)
          /\ ret.positivity_mip_loss = 0
          /\ ret.derivative_mip_loss = 0
          /\ ret.loss = ret.positivity_sample_loss + ret.derivative_sample_loss
    /\ pc = "on_samples_loop" /\ grad_log /= <<>> =>
          grad_log[Len(grad_log)] =
              [fn |-> "loss.backward", mode |-> "unbound",
               loss1 |-> ret.positivity_sample_loss + ret.derivative_sample_loss,
               loss2 |-> 0]

\* a later iteration of a run with the augmentation flag set, on an object
\* whose certificate weights are not zero, after a loss was back-propagated
C14_Witness ==
    /\ pc = "on_samples_best"
    /\ num_loss_evals >= 2
    /\ self.add_adversarial_state_to_training
    /\ self.lyapunov_positivity_mip_cost_weight /= 0
    /\ self.lyapunov_derivative_mip_cost_weight /= 0
    /\ grad_log /= <<>>
    /\ grad_log[Len(grad_log)].loss1 /= 0
    /\ Len(ret.positivity_state_samples) = Len(args.state_samples_all) + 1

(***************************************************************************)
(* train_with_line_search (lines 359-439) and the checks train and         *)
(* train_with_line_search make of their configuration.  The line search    *)
(* optimizers are not part of the sources: a step of one of them calls the *)
(* closure once per step size it tries and leaves the parameters at the    *)
(* last one.                                                               *)
(***************************************************************************)
MaxTrials == 2        \* most step sizes one optimizer step tries

\* lyapunov_hybrid_system.system.x_dim of the system of the model
x_dim == 1

\* lines 399, 406: the optimizers train_with_line_search knows
LineSearchOptimizers == {"GD", "LineSearchAdam"}

\* the values of self.optimizer of the model
OptimizerVals == {"Adam", "GD", "RMSprop"}

\* the solves of one closure of train_with_line_search
LineSearchPosObjVals == {-2, 0, 1}
LineSearchDerObjVals == {29, 30}
LineSearchOracles ==
    Oracles({<<v>> : v \in LineSearchPosObjVals}, {1}, {<<v>> : v \in LineSearchDerObjVals}, {<<1, [i \in Modes |-> IF i = 0 THEN 100 ELSE 0]>>})

\* lines 420-423: the test of train_with_line_search
LineSearchConverged(slf, positivity_mip_cost, derivative_mip_cost) ==
    /\ positivity_mip_cost < slf.lyapunov_positivity_convergence_tol
    /\ derivative_mip_cost < slf.lyapunov_derivative_convergence_tol

InitEntry ==
    /\ relu \in ThetaVals
    /\ pc = "idle"
    /\ args = None
    /\ oracle = None
    /\ ret = None
    /\ IdleTrainVars
    /\ IdleOnSamplesVars
    /\ \E n \in 0..MaxIter, optimizer \in OptimizerVals :
          self = [NewSelf(n, DefaultWeights, 1, 1, "NONE", FALSE, MaxWindow) EXCEPT !.optimizer = optimizer]

\* a call that raises before it binds anything: the frame of the object
EntryRaises(state_samples_all, shape, error) ==
    /\ pc \in {"idle", "returned", "raised"}
    /\ num_calls < MaxCalls
    /\ args' = [state_samples_all |-> state_samples_all, shape |-> shape]
    /\ result' = <<error>>
    /\ ret' = None
    /\ oracle' = None
    /\ num_calls' = num_calls + 1
    /\ relu_at_call' = relu
    /\ num_steps' = 0
    /\ num_loss_evals' = 0
    /\ grad_log' = <<>>
    /\ pc' = "raised"
    /\ UNCHANGED <<self, relu, iter_count, positivity_state_samples,
                   derivative_state_samples, derivative_state_samples_next,
                   losses, lyapunov_positivity_mip_costs,
                   lyapunov_derivative_mip_costs, project_gradient_mode>>
    /\ UNCHANGED onSamplesVars

\* lines 443-445: the samples of train do not have x_dim columns
TrainShapeMismatch ==
    /\ x_dim /= 2
    /\ \E state_samples_all \in SeqsUpTo(StateVals \X StateVals, 1, MaxSamples) :
          EntryRaises(state_samples_all, <<Len(state_samples_all), 2>>, "AssertionError")

\* lines 453-464: train does not know self.optimizer
TrainUnknownOptimizer ==
    /\ self.optimizer \notin TrainOptimizers
    /\ \E state_samples_all \in SeqsUpTo(StateVals, 1, MaxSamples) :
          EntryRaises(state_samples_all, <<Len(state_samples_all), x_dim>>, "Exception")

\* lines 361-363: the samples of train_with_line_search do not have x_dim
\* columns
LineSearchShapeMismatch ==
    /\ x_dim /= 2
    /\ \E state_samples_all \in SeqsUpTo(StateVals \X StateVals, 1, MaxSamples) :
          EntryRaises(state_samples_all, <<Len(state_samples_all), 2>>, "AssertionError")

\* lines 359-377, 390: the pools and the histories
LineSearchCall ==
    /\ pc \in {"idle", "returned", "raised"}
    /\ num_calls < MaxCalls
    /\ \E state_samples_all \in SeqsUpTo(StateVals, 1, MaxSamples) :
          /\ args' = [state_samples_all |-> state_samples_all,
                      shape |-> <<Len(state_samples_all), x_dim>>]
          /\ positivity_state_samples' = state_samples_all
          /\ derivative_state_samples' = state_samples_all
          /\ derivative_state_samples_next' = NextStates(state_samples_all)
    /\ iter_count' = 0
    /\ lyapunov_positivity_mip_costs' = Repeat(None, self.max_iterations)
    /\ lyapunov_derivative_mip_costs' = Repeat(None, self.max_iterations)
    /\ losses' = Repeat(None, self.max_iterations)
    /\ project_gradient_mode' = "unbound"
    /\ result' = None
    /\ ret' = None
    /\ oracle' = None
    /\ num_calls' = num_calls + 1
    /\ relu_at_call' = relu
    /\ num_steps' = 0
    /\ num_loss_evals' = 0
    /\ grad_log' = <<>>
    /\ pc' = "line_search_closure"
    /\ UNCHANGED <<self, relu>>
    /\ UNCHANGED onSamplesVars

\* lines 379-388 called with the parameters theta: total_loss on the pools
\* of the call, the objectives stored at iter_count
Closure(theta, orc) ==
    LET r == TotalLoss(self, theta, positivity_state_samples,
                 derivative_state_samples, derivative_state_samples_next,
                 None, None, None, None, orc)
    IN  /\ oracle' = orc
        /\ ret' = r
        /\ lyapunov_positivity_mip_costs' =
               [lyapunov_positivity_mip_costs EXCEPT
                   ![iter_count + 1] = Some(r.positivity_objective)]
        /\ lyapunov_derivative_mip_costs' =
               [lyapunov_derivative_mip_costs EXCEPT
                   ![iter_count + 1] = Some(r.derivative_objective)]

\* lines 392-398: the first closure, its gradient, iter_count = 1
LineSearchInitialClosure ==
    /\ pc = "line_search_closure"
    /\ self.max_iterations > 0
    /\ \E orc \in LineSearchOracles :
          /\ Closure(relu, orc)
          /\ losses' = [losses EXCEPT ![1] = Some(ret'.loss)]
    /\ grad_log' = Append(grad_log, GradientCall("NONE", "unbound", ret'))
    /\ num_loss_evals' = num_loss_evals + 1
    /\ iter_count' = 1
    /\ pc' = "line_search_loop"
    /\ UNCHANGED <<self, relu, args, positivity_state_samples,
                   derivative_state_samples, derivative_state_samples_next,
                   project_gradient_mode, result, num_calls, relu_at_call,
                   num_steps>>
    /\ UNCHANGED onSamplesVars

\* lines 381-385 with empty histories: total_loss returns, the assignment
\* to lyapunov_positivity_mip_costs[0] raises IndexError
LineSearchInitialClosureRaises ==
    /\ pc = "line_search_closure"
    /\ self.max_iterations = 0
    /\ \E orc \in LineSearchOracles :
          /\ oracle' = orc
          /\ ret' = TotalLoss(self, relu, positivity_state_samples,
                        derivative_state_samples,
                        derivative_state_samples_next,
                        None, None, None, None, orc)
    /\ num_loss_evals' = num_loss_evals + 1
    /\ result' = <<"IndexError">>
    /\ pc' = "raised"
    /\ UNCHANGED <<self, relu, args, iter_count, positivity_state_samples,
                   derivative_state_samples, derivative_state_samples_next,
                   losses, lyapunov_positivity_mip_costs,
                   lyapunov_derivative_mip_costs, project_gradient_mode,
                   num_calls, relu_at_call, num_steps, grad_log>>
    /\ UNCHANGED onSamplesVars

\* lines 413-419: one step of the optimizer, which calls the closure once
\* per step size it tries, then the gradient of the loss it returns
LineSearchOptimizerStep ==
    /\ pc = "line_search_loop"
    /\ iter_count < self.max_iterations
    /\ self.optimizer \in LineSearchOptimizers
    /\ \E trials \in 1..MaxTrials, theta \in ThetaVals, orc \in LineSearchOracles :
          /\ relu' = theta
          /\ Closure(theta, orc)
          /\ losses' = [losses EXCEPT ![iter_count + 1] = Some(ret'.loss)]
          /\ num_loss_evals' = num_loss_evals + trials
    /\ grad_log' = Append(grad_log, GradientCall("NONE", "unbound", ret'))
    /\ num_steps' = num_steps + 1
    /\ pc' = "line_search_check"
    /\ UNCHANGED <<self, args, iter_count, positivity_state_samples,
                   derivative_state_samples, derivative_state_samples_next,
                   project_gradient_mode, result, num_calls, relu_at_call>>
    /\ UNCHANGED onSamplesVars

\* line 414 with neither branch of lines 399-412 taken: optimizer is not
\* bound, UnboundLocalError
LineSearchOptimizerUnbound ==
    /\ pc = "line_search_loop"
    /\ iter_count < self.max_iterations
    /\ self.optimizer \notin LineSearchOptimizers
    /\ result' = <<"UnboundLocalError">>
    /\ pc' = "raised"
    /\ UNCHANGED <<self, relu, args, oracle, ret, iter_count,
                   positivity_state_samples, derivative_state_samples,
                   derivative_state_samples_next, losses,
                   lyapunov_positivity_mip_costs,
                   lyapunov_derivative_mip_costs, project_gradient_mode,
                   num_calls, relu_at_call, num_steps, num_loss_evals,
                   grad_log>>
    /\ UNCHANGED onSamplesVars

\* lines 420-424: return True
LineSearchReturnTrue ==
    /\ pc = "line_search_check"
    /\ LineSearchConverged(self, lyapunov_positivity_mip_costs[iter_count + 1][1],
                           lyapunov_derivative_mip_costs[iter_count + 1][1])
    /\ result' = [converged |-> TRUE]
    /\ pc' = "returned"
    /\ UNCHANGED <<self, relu, args, oracle, ret, iter_count,
                   positivity_state_samples, derivative_state_samples,
                   derivative_state_samples_next, losses,
                   lyapunov_positivity_mip_costs,
                   lyapunov_derivative_mip_costs, project_gradient_mode,
                   num_calls, relu_at_call, num_steps, num_loss_evals,
                   grad_log>>
    /\ UNCHANGED onSamplesVars

\* lines 420-438: the test fails, iter_count += 1
LineSearchContinue ==
    /\ pc = "line_search_check"
    /\ ~LineSearchConverged(self, lyapunov_positivity_mip_costs[iter_count + 1][1],
                            lyapunov_derivative_mip_costs[iter_count + 1][1])
    /\ iter_count' = iter_count + 1
    /\ pc' = "line_search_loop"
    /\ UNCHANGED <<self, relu, args, oracle, ret,
                   positivity_state_samples, derivative_state_samples,
                   derivative_state_samples_next, losses,
                   lyapunov_positivity_mip_costs,
                   lyapunov_derivative_mip_costs, project_gradient_mode,
                   result, num_calls, relu_at_call, num_steps,
                   num_loss_evals, grad_log>>
    /\ UNCHANGED onSamplesVars

\* lines 413, 439: return False
LineSearchExhausted ==
    /\ pc = "line_search_loop"
    /\ ~(iter_count < self.max_iterations)
    /\ result' = [converged |-> FALSE]
    /\ pc' = "returned"
    /\ UNCHANGED <<self, relu, args, oracle, ret, iter_count,
                   positivity_state_samples, derivative_state_samples,
                   derivative_state_samples_next, losses,
                   lyapunov_positivity_mip_costs,
                   lyapunov_derivative_mip_costs, project_gradient_mode,
                   num_calls, relu_at_call, num_steps, num_loss_evals,
                   grad_log>>
    /\ UNCHANGED onSamplesVars

LineSearchRun ==
    \/ LineSearchInitialClosure
    \/ LineSearchInitialClosureRaises
    \/ LineSearchOptimizerStep
    \/ LineSearchOptimizerUnbound
    \/ LineSearchReturnTrue
    \/ LineSearchContinue
    \/ LineSearchExhausted

EntryCall ==
    \/ TrainCall
    \/ TrainShapeMismatch
    \/ TrainUnknownOptimizer
    \/ LineSearchCall
    \/ LineSearchShapeMismatch

NextEntry == EntryCall \/ TrainRun \/ LineSearchRun

SpecEntry == InitEntry /\ [][NextEntry]_vars

(***************************************************************************)
(* Claims about train_with_line_search and the configuration checks        *)
(***************************************************************************)
\* C15: train_with_line_search declares convergence exactly when the
\* convergence predicate of train holds for the objectives recorded at the
\* current iteration: positivity_objective >= -tol_pos and
\* derivative_objective <= tol_der.
C15_LineSearchMirrorsTrain ==
    [][pc = "line_search_check" =>
          ((pc' = "returned" /\ result'.converged) <=> PredicateAt(iter_count))]_vars

\* the call under way, or the last one, was made with samples that do not
\* have x_dim columns or on an object whose optimizer no entry point knows
ConfigurationError ==
    /\ args /= None
    /\ \/ self.optimizer \notin (TrainOptimizers \cup LineSearchOptimizers)
       \/ "shape" \in DOMAIN args /\ args.shape[2] /= x_dim

\* C16: a configuration error (unknown optimizer, samples whose shape does
\* not match the state dimension) is fatal and is raised before any
\* iteration of train or train_with_line_search runs: no certificate solve,
\* no gradient and no parameter update precedes it, and the call does not
\* return normally.
C16_ConfigurationErrorFirst ==
    ConfigurationError =>
        /\ num_loss_evals = 0
        /\ grad_log = <<>>
        /\ num_steps = 0
        /\ relu = relu_at_call
        /\ pc /= "returned"
        /\ pc = "raised" => result \in {<<"AssertionError">>, <<"Exception">>}

(***************************************************************************)
(* total_loss and the status of its two solves (lines 187-218, 352).  The  *)
(* solver is not part of the sources: optimize() ends with a status, and   *)
(* with solutions or without one; an attribute of a solution that does not *)
(* exist cannot be read.                                                   *)
(***************************************************************************)
\* the ways optimize() ends: optimal, stopped with a solution that is not
\* proven optimal, without a solution
SolveStatuses == {"OPTIMAL", "SUBOPTIMAL", "INFEASIBLE"}

\* what optimize() leaves in a MILP whose objective values are obj_vals
SolveOutcomes(obj_vals) ==
    {[status |-> s, pool |-> p] : s \in SolveStatuses \ {"INFEASIBLE"}, p \in {<<v>> : v \in obj_vals}}
    \cup {[status |-> "INFEASIBLE", pool |-> <<>>]}

SolveOracles ==
    {[positivity |-> [status |-> po.status, pool |-> po.pool, x |-> 1],
      derivative |-> [status |-> do.status, pool |-> do.pool, x |-> 1, gamma |-> [i \in Modes |-> IF i = 0 THEN 100 ELSE 0]]] :
        po \in SolveOutcomes({-2, 1}), do \in SolveOutcomes({-1, 31})}

InitSolve ==
    /\ relu \in ThetaVals
    /\ pc = "total_loss"
    /\ ret = None
    /\ IdleTrainVars
    /\ IdleOnSamplesVars
    /\ \E adversarial \in BOOLEAN, samples \in SeqsUpTo(StateVals, 0, 1) :
          /\ self = NewSelf(0, DefaultWeights, 1, 1, "NONE", adversarial, 1)
          /\ args = TotalLossArgs(samples, samples, NextStates(samples), NoOverrides)
    /\ oracle \in SolveOracles

\* lines 187-200: the positivity MILP is built and solved
SolvePositivity ==
    /\ pc = "total_loss"
    /\ pc' = "positivity_solved"
    /\ UNCHANGED <<self, relu, args, oracle, ret>>
    /\ UNCHANGED trainVars
    /\ UNCHANGED onSamplesVars

\* lines 202-215: the derivative MILP is built and solved, whatever the
\* status of the first solve
SolveDerivative ==
    /\ pc = "positivity_solved"
    /\ pc' = "derivative_solved"
    /\ UNCHANGED <<self, relu, args, oracle, ret>>
    /\ UNCHANGED trainVars
    /\ UNCHANGED onSamplesVars

\* lines 217-357 when both MILPs have a solution: no line reads Status
SolvedLossReturns ==
    /\ pc = "derivative_solved"
    /\ solCount(oracle.positivity) > 0
    /\ solCount(oracle.derivative) > 0
    /\ ret' = TotalLoss(self, relu, args.positivity_state_samples,
                        args.derivative_state_samples,
                        args.derivative_state_samples_next,
                        args.lyapunov_positivity_sample_cost_weight,
                        args.lyapunov_derivative_sample_cost_weight,
                        args.lyapunov_positivity_mip_cost_weight,
                        args.lyapunov_derivative_mip_cost_weight, oracle)
    /\ pc' = "total_loss_returned"
    /\ UNCHANGED <<self, relu, args, oracle>>
    /\ UNCHANGED trainVars
    /\ UNCHANGED onSamplesVars

\* line 218 (v.x of the derivative MILP) or line 352 (ObjVal of the
\* positivity MILP) when that MILP has no solution: the read raises
SolvedLossRaises ==
    /\ pc = "derivative_solved"
    /\ solCount(oracle.positivity) = 0 \/ solCount(oracle.derivative) = 0
    /\ result' = <<"GurobiError">>
    /\ pc' = "raised"
    /\ UNCHANGED <<self, relu, args, oracle, ret, iter_count,
                   positivity_state_samples, derivative_state_samples,
                   derivative_state_samples_next, losses,
                   lyapunov_positivity_mip_costs,
                   lyapunov_derivative_mip_costs, project_gradient_mode,
                   num_calls, relu_at_call, num_steps, num_loss_evals,
                   grad_log>>
    /\ UNCHANGED onSamplesVars

NextSolve ==
    \/ SolvePositivity
    \/ SolveDerivative
    \/ SolvedLossReturns
    \/ SolvedLossRaises

SpecSolve == InitSolve /\ [][NextSolve]_vars

\* C17: if one of the two solves of total_loss does not reach optimality,
\* the call ends in an error, no further solve is made, and total_loss does
\* not return a loss or objectives taken from that solve.
C17_NonOptimalSolveRaises ==
    /\ pc \in {"derivative_solved", "total_loss_returned", "raised"} =>
          oracle.positivity.status = "OPTIMAL"
    /\ pc = "total_loss_returned" => oracle.derivative.status = "OPTIMAL"

(***************************************************************************)
(* Claims about the pools and the parameters during train                  *)
(***************************************************************************)
\* train has evaluated the loss of an iteration of a run that adds the
\* adversarial states to the pools
AdversarialEvaluated ==
    pc = "train_check" /\ self.add_adversarial_state_to_training

\* a pool without its newest entry
Front(pool) == SubSeq(pool, 1, Len(pool) - 1)

\* C18: with add_adversarial_state_to_training set, the adversarial states
\* of an iteration are appended to the pools before the sample losses of
\* that iteration read them: the samples the sample losses of iteration k
\* were computed on are the window of the pools that hold the adversarial
\* states of iteration k.
C18_AppendBeforeRead ==
    AdversarialEvaluated =>
        /\ ret.positivity_state_samples_in_pool =
               SamplesInPool(positivity_state_samples, self.max_sample_pool_size)
        /\ ret.derivative_state_samples_in_pool =
               SamplesInPool(derivative_state_samples, self.max_sample_pool_size)
        /\ ret.derivative_state_samples_next_in_pool =
               SamplesInPool(derivative_state_samples_next, self.max_sample_pool_size)

\* C18, amended: the adversarial states of an iteration are appended to the
\* pools after the sample losses of that iteration were computed: the
\* sample losses of iteration k read the window of the pools without the
\* adversarial states of iteration k, which are the newest entries of the
\* pools train holds afterwards and are read from iteration k+1 on.
C18_AppendAfterRead ==
    AdversarialEvaluated =>
        /\ positivity_state_samples =
               Append(Front(positivity_state_samples), oracle.positivity.x)
        /\ derivative_state_samples =
               Append(Front(derivative_state_samples), oracle.derivative.x)
        /\ derivative_state_samples_next =
               Append(Front(derivative_state_samples_next),
                   AdversarialNext(oracle.derivative))
        /\ ret.positivity_state_samples_in_pool =
               SamplesInPool(Front(positivity_state_samples), self.max_sample_pool_size)
        /\ ret.derivative_state_samples_in_pool =
               SamplesInPool(Front(derivative_state_samples), self.max_sample_pool_size)
        /\ ret.derivative_state_samples_next_in_pool =
               SamplesInPool(Front(derivative_state_samples_next), self.max_sample_pool_size)

\* the second iteration of a run: its sample losses read the adversarial
\* state of the first iteration and not the one of the second, which differs
C18_Witness ==
    /\ AdversarialEvaluated
    /\ num_loss_evals = 2
    /\ Len(positivity_state_samples) = 3
    /\ positivity_state_samples[3] /= positivity_state_samples[2]
    /\ ret.positivity_state_samples_in_pool[Len(ret.positivity_state_samples_in_pool)] = positivity_state_samples[2]
    /\ self.max_sample_pool_size = 1

\* C19: during train the parameters of the network are written by the
\* optimizer step only, once in every iteration that does not converge:
\* evaluating the loss, testing convergence and resolving the gradient
\* leave them as they are, and the parameters a loss is evaluated on have
\* taken one optimizer step per iteration before it.
C19_OnlyOptimizerWritesParameters ==
    [][InTrain =>
          /\ relu' /= relu \/ num_steps' /= num_steps =>
                pc = "train_step" /\ pc' = "train_loop"
          /\ pc = "train_step" =>
                num_steps' = num_steps + 1 /\ iter_count' = iter_count + 1
          /\ pc' = "train_check" =>
                num_steps' = iter_count' /\ num_loss_evals' = iter_count' + 1]_vars

\* the loss of the third iteration is evaluated on parameters that two
\* optimizer steps have moved
C19_Witness ==
    /\ pc = "train_check"
    /\ iter_count = 2
    /\ num_steps = 2
    /\ relu /= relu_at_call
    /\ Len(grad_log) = 2

(***************************************************************************)
(* mode of a hybrid linear system, on the systems of the tests             *)
(* (test_hybrid_linear_system.py).  hybrid_linear_system.py is not part of *)
(* the sources: mode tests the modes in the order they were added.  A      *)
(* point is a vector of integers in units of 1 / unit of its system.       *)
(***************************************************************************)
\* torch.cat((a * torch.eye(3), b * torch.eye(3)), dim=0), with b negative
ScaledBox(a, b) ==
    <<<<a, 0, 0>>, <<0, a, 0>>, <<0, 0, a>>, <<b, 0, 0>>, <<0, b, 0>>, <<0, 0, b>>>>

\* the system of test_mode (lines 275-299): P and q of its three modes
TestModeSystem ==
    [name |-> "test_mode",
     unit |-> 2,
     P |-> <<ScaledBox(1, -1),
             ScaledBox(3, -2) \o <<<<1, 2, 3>>>>,
             ScaledBox(2, -5) \o <<<<4, 2, 1>>>>>>,
     q |-> <<<<1, 2, 3, 1, 2, 3>>,
             <<12, 2, 4, -1, 1, 3, 7>>,
             <<1, 3, 3, -1, 1, 3, 4>>>>]

\* the system of setup_trecate_discrete_time_system (lines 8-37): P and q of
\* its four modes
TrecateSystem ==
    [name |-> "trecate",
     unit |-> 10,
     P |-> [i \in 1..4 |-> <<<<1, 0>>, <<-1, 0>>, <<0, 1>>, <<0, -1>>>>],
     q |-> <<<<1, 0, 0, 1>>, <<1, 0, 1, 0>>, <<0, 1, 0, 1>>, <<0, 1, 1, 0>>>>,
     a_unit |-> 1000,
     A |-> <<<<<<-999, 0>>, <<-139, 341>>>>,
             <<<<436, 323>>, <<388, -49>>>>,
             <<<<-457, 215>>, <<491, 490>>>>,
             <<<<-22, 344>>, <<458, 271>>>>>>,
     g |-> [i \in 1..4 |-> <<0, 0>>]]

\* the points mode is called on: those of the tests and a grid around them
TestModePoints ==
    ((-3..3) \X (-1..1) \X (-1..1)) \cup {<<0, 0, 0>>, <<2, 0, 4>>, <<20, 40, 10>>}

TrecatePoints ==
    {-11, -10, -5, -4, 0, 4, 5, 10, 11} \X {-11, -10, -5, -4, 0, 4, 5, 10, 11}

\* the results the tests assert (lines 301-309, 549-558)
ExpectedModes ==
    {[system |-> "test_mode", point |-> <<0, 0, 0>>, mode |-> Some(0)],
     [system |-> "test_mode", point |-> <<2, 0, 4>>, mode |-> Some(0)],
     [system |-> "test_mode", point |-> <<20, 40, 10>>, mode |-> None],
     [system |-> "trecate", point |-> <<4, 5>>, mode |-> Some(1)],
     [system |-> "trecate", point |-> <<-4, 5>>, mode |-> Some(3)],
     [system |-> "trecate", point |-> <<-4, -5>>, mode |-> Some(2)],
     [system |-> "trecate", point |-> <<4, -5>>, mode |-> Some(0)]}

\* P[i] @ (x, u) <= q[i] in every row, for the mode of index i
InModePolytope(sys, i, pt) ==
    \A r \in 1..Len(sys.P[i + 1]) :
        SumSeq([k \in 1..Len(pt) |-> sys.P[i + 1][r][k] * pt[k]])
            <= sys.unit * sys.q[i + 1][r]

RECURSIVE ModeFrom(_, _, _)
\* a faulty variant: the last mode that holds the point is returned
ModeFrom_LastMatch(sys, pt, i) ==
    IF i >= Len(sys.P) THEN None
    ELSE IF ModeFrom(sys, pt, i + 1) /= None THEN ModeFrom(sys, pt, i + 1)
         ELSE IF InModePolytope(sys, i, pt) THEN Some(i) ELSE None

\* the loop of mode over the modes, from the mode of index i on
ModeFrom(sys, pt, i) ==
    IF i >= Len(sys.P) THEN None
    ELSE IF InModePolytope(sys, i, pt) THEN Some(i)
         ELSE ModeFrom(sys, pt, i + 1)

\* mode(x) and mode(x, u): the point is x, or x followed by u
HybridLinearSystem_mode(sys, pt) == ModeFrom(sys, pt, 0)

\* A[i] @ x + g[i] for the mode of index i, in units of
\* 1 / (unit * a_unit)
AffineStep(sys, i, x) ==
    [r \in 1..Len(sys.A[i + 1]) |->
        SumSeq([k \in 1..Len(x) |-> sys.A[i + 1][r][k] * x[k]])
            + sys.unit * sys.a_unit * sys.g[i + 1][r]]

\* a faulty variant: without a mode argument the first mode added is taken
HybridLinearSystem_step_forward_FirstAdded(sys, x, mode_arg) ==
    AffineStep(sys, IF mode_arg = None THEN 0 ELSE mode_arg[1], x)

\* step_forward(x, mode=None) of an autonomous system: the mode of x is
\* looked up when none is given
HybridLinearSystem_step_forward(sys, x, mode_arg) ==
    LET m == IF mode_arg = None THEN HybridLinearSystem_mode(sys, x) ELSE mode_arg
    IN  AffineStep(sys, m[1], x)

\* the points test_fun of test_step_forward1 is called on, and the points of
\* the grid that lie in some mode
StepForwardPoints ==
    {pt \in TrecatePoints : HybridLinearSystem_mode(TrecateSystem, pt) /= None}

InitSystem ==
    /\ relu \in ThetaVals
    /\ ret = None
    /\ oracle = None
    /\ IdleTrainVars
    /\ IdleOnSamplesVars
    /\ \/ /\ pc = "mode"
          /\ \/ self = TestModeSystem /\ \E pt \in TestModePoints : args = [xu |-> pt]
             \/ self = TrecateSystem /\ \E pt \in TrecatePoints : args = [xu |-> pt]
       \/ /\ pc = "test_step_forward"
          /\ self = TrecateSystem
          /\ \E pt \in StepForwardPoints : args = [x |-> pt]

\* test_fun of test_step_forward1 (lines 582-590), up to its assertions
StepForwardTest ==
    /\ pc = "test_step_forward"
    /\ LET mode_of_x == HybridLinearSystem_mode(self, args.x)
       IN  ret' = [mode |-> mode_of_x,
                   x_next_expected |->
                       HybridLinearSystem_step_forward(self, args.x, mode_of_x),
                   x_next_expected2 |->
                       HybridLinearSystem_step_forward(self, args.x, None),
                   x_next |-> AffineStep(self, mode_of_x[1], args.x)]
    /\ pc' = "test_step_forward_returned"
    /\ UNCHANGED <<self, relu, args, oracle>>
    /\ UNCHANGED trainVars
    /\ UNCHANGED onSamplesVars

\* one call of mode
ModeCall ==
    /\ pc = "mode"
    /\ ret' = HybridLinearSystem_mode(self, args.xu)
    /\ pc' = "mode_returned"
    /\ UNCHANGED <<self, relu, args, oracle>>
    /\ UNCHANGED trainVars
    /\ UNCHANGED onSamplesVars

NextSystem == ModeCall \/ StepForwardTest

SpecSystem == InitSystem /\ [][NextSystem]_vars

(***************************************************************************)
(* Claims about the hybrid linear system                                   *)
(***************************************************************************)
\* the modes whose polytope holds the point of the call
ModesHolding == {i \in 0..(Len(self.P) - 1) : InModePolytope(self, i, args.xu)}

StepModesHolding == {i \in 0..(Len(self.P) - 1) : InModePolytope(self, i, args.x)}

\* A[i] x + g[i] of a system with two states, written out entry by entry
StepOfMode(i) ==
    LET A == self.A[i + 1]
        g == self.g[i + 1]
        x == args.x
        scale == self.unit * self.a_unit
    IN  <<A[1][1] * x[1] + A[1][2] * x[2] + scale * g[1],
          A[2][1] * x[1] + A[2][2] * x[2] + scale * g[2]>>

ExceededPrevious(k) == k >= 2 /\ eval_log[k].mip_loss > eval_log[k - 1].mip_loss

\* the number of iterations at the end of eval_log each of which exceeded
\* the iteration before it
TrailingIncreases ==
    LET n == Len(eval_log)
        first_of_run == CHOOSE s \in 1..(n + 1) :
             /\ \A k \in s..n : ExceededPrevious(k)
             /\ s > 1 => ~ExceededPrevious(s - 1)
    IN  n + 1 - first_of_run

\* the iteration that was evaluated last has gone through lines 587-599
OnSamplesCounted ==
    pc \in {"on_samples_loop", "on_samples_step", "on_samples_load", "returned", "raised"}

\* the loop was left by the break of line 595: no optimizer step was taken
\* in the iteration evaluated last
OnSamplesStoppedEarly ==
    /\ pc \in {"on_samples_load", "returned", "raised"}
    /\ num_steps < Len(eval_log)

\* C22: after every iteration of train_lyapunov_on_samples the counter is the
\* number of immediately preceding consecutive iterations whose mip_loss
\* strictly exceeded that of the iteration before it (zero after the first
\* iteration and after an equal value), and the loop is left early exactly
\* when the counter has become equal to max_increasing_iterations.
C22_CounterCountsTrailingIncreases ==
    /\ OnSamplesCounted => num_increasing_iterations = TrailingIncreases
    /\ pc \in {"on_samples_loop", "on_samples_step"} =>
          num_increasing_iterations < args.max_increasing_iterations
    /\ pc \in {"on_samples_load", "returned", "raised"} =>
          (OnSamplesStoppedEarly <=>
              num_increasing_iterations = args.max_increasing_iterations)

\* the counter is one after an equal value followed by an increase, and the
\* run goes on
C22_Witness ==
    /\ pc = "on_samples_step"
    /\ Len(eval_log) = 3
    /\ eval_log[2].mip_loss = eval_log[1].mip_loss
    /\ eval_log[3].mip_loss > eval_log[2].mip_loss
    /\ num_increasing_iterations = 1

(***************************************************************************)
(* Claims about the gradient policy of train                               *)
(***************************************************************************)
\* the projection modes the policy may pass to project_gradient
PolicyModes(method) ==
    IF method = "SUM" THEN {"BOTH"}
    ELSE IF method = "EMPHASIZE_POSITIVITY" THEN {"EMPHASIZE_LOSS1"}
    ELSE IF method = "ALTERNATE" THEN {"LOSS2", "LOSS1"}
    ELSE {}

\* the number of iterations of this run that did not converge
NonConvergingIterations == IF pc = "train_step" THEN iter_count + 1 ELSE iter_count

\* C23: in train, policy NONE back-propagates the total loss and never calls
\* the projection; SUM calls the projection in mode BOTH,
\* EMPHASIZE_POSITIVITY in mode EMPHASIZE_LOSS1, ALTERNATE in mode LOSS2 or
\* LOSS1, each with loss1 = positivity sample loss + positivity certificate
\* loss and loss2 = derivative sample loss + derivative certificate loss;
\* every non-converging iteration has exactly one gradient computation.
C23_GradientPolicyTable ==
    (InTrain \/ TrainReturned) =>
        /\ Len(grad_log) = NonConvergingIterations
        /\ \A j \in 1..Len(grad_log) :
              IF self.project_gradient_method = "NONE"
              THEN grad_log[j].fn = "loss.backward"
              ELSE /\ grad_log[j].fn = "project_gradient"
                   /\ grad_log[j].mode \in PolicyModes(self.project_gradient_method)
        /\ pc = "train_step" =>
              IF self.project_gradient_method = "NONE"
              THEN grad_log[iter_count + 1].loss1 = ret.loss
              ELSE /\ grad_log[iter_count + 1].loss1 =
                          ret.positivity_sample_loss + ret.positivity_mip_loss
                   /\ grad_log[iter_count + 1].loss2 =
                          ret.derivative_sample_loss + ret.derivative_mip_loss

\* the second gradient of a run under EMPHASIZE_POSITIVITY, with different
\* positivity and derivative losses
C23_Witness ==
    /\ pc = "train_step"
    /\ self.project_gradient_method = "EMPHASIZE_POSITIVITY"
    /\ Len(grad_log) = 2
    /\ grad_log[2].mode = "EMPHASIZE_LOSS1"
    /\ grad_log[2].loss1 /= grad_log[2].loss2
    /\ grad_log[2].loss1 /= 0

(***************************************************************************)
(* Claims about the next-state pool of train                               *)
(***************************************************************************)
\* the entries of the pools that come from the samples train was called with
InitialEntries == 1..Len(args.state_samples_all)

\* C24: in every state of train, each entry of the derivative next-state
\* pool is the successor of the entry at the same index of the derivative
\* pool: an initial entry is step_forward of its sample, and the entry a
\* total_loss call appends is step_forward of the adversarial state of the
\* derivative MILP in the first mode whose binary exceeds 0.99.
C24_NextPoolHoldsSuccessors ==
    InTrain \/ TrainReturned =>
        /\ Len(derivative_state_samples_next) = Len(derivative_state_samples)
        /\ \A i \in 1..Len(derivative_state_samples_next) :
              \E m \in Modes :
                  /\ InMode(m, derivative_state_samples[i])
                  /\ derivative_state_samples_next[i] =
                         SysA[m] * derivative_state_samples[i] + Sysg[m]
        /\ \A i \in InitialEntries :
              /\ derivative_state_samples[i] = args.state_samples_all[i]
              /\ derivative_state_samples_next[i] =
                     step_forward(args.state_samples_all[i])
        /\ pc = "train_check" /\ self.add_adversarial_state_to_training =>
              LET n == Len(derivative_state_samples)
                  active == CHOOSE m \in Modes :
                      /\ oracle.derivative.gamma[m] > 99
                      /\ \A j \in 0..(m - 1) : oracle.derivative.gamma[j] <= 99
              IN  /\ derivative_state_samples[n] = oracle.derivative.x
                  /\ derivative_state_samples_next[n] =
                         SysA[active] * oracle.derivative.x + Sysg[active]

\* a run with augmentation whose two adversarial states lie in different
\* modes and differ from their successors
C24_Witness ==
    /\ pc = "train_check"
    /\ self.add_adversarial_state_to_training
    /\ Len(derivative_state_samples) = Len(args.state_samples_all) + 2
    /\ derivative_state_samples[Len(derivative_state_samples) - 1] < 0
    /\ derivative_state_samples_next[Len(derivative_state_samples) - 1] = 0
    /\ derivative_state_samples[Len(derivative_state_samples)] > 0
    /\ derivative_state_samples_next[Len(derivative_state_samples)] < 0

(***************************************************************************)
(* Claims about the window of the derivative sample loss                   *)
(***************************************************************************)
\* the derivative sample loss of the call was computed
DerivativeSampleLossEvaluated ==
    /\ LossReturned
    /\ set_weight(args.lyapunov_derivative_sample_cost_weight, self.lyapunov_derivative_sample_cost_weight) /= 0
    /\ Len(args.derivative_state_samples) > 0

\* C25: when the derivative pool has more than K = max_sample_pool_size
\* entries, total_loss hands the derivative sample loss the entries of the
\* derivative pool and of the next-state pool at the same indices, the last
\* K of each, so that every state is paired with its own next state.
C25_SameIndexWindow ==
    DerivativeSampleLossEvaluated =>
        LET K == self.max_sample_pool_size
            der == args.derivative_state_samples
            der_next == args.derivative_state_samples_next
            n == Len(der)
        IN  n > K =>
               /\ Len(ret.derivative_state_samples_in_pool) = K
               /\ Len(ret.derivative_state_samples_next_in_pool) = K
               /\ \A i \in 1..K :
                     /\ ret.derivative_state_samples_in_pool[i] = der[n - K + i]
                     /\ ret.derivative_state_samples_next_in_pool[i] = der_next[n - K + i]

\* a pool of three states windowed to its last two, whose first next state
\* is not the one of the first state of the window
C25_Witness ==
    /\ DerivativeSampleLossEvaluated
    /\ self.max_sample_pool_size = 2
    /\ Len(args.derivative_state_samples) = 3
    /\ args.derivative_state_samples_next[1] /= args.derivative_state_samples_next[2]
    /\ ret.derivative_state_samples_next_in_pool[1] = args.derivative_state_samples_next[2]
    /\ ret.derivative_state_samples_in_pool = <<args.derivative_state_samples[2], args.derivative_state_samples[3]>>

(***************************************************************************)
(* Claims about the end of train_lyapunov_on_samples                       *)
(***************************************************************************)
\* the parameters the network held when a snapshot could be captured: those
\* at the start of an iteration of this run
CapturedParameters == {eval_log[i].relu : i \in 1..Len(eval_log)}

\* C26: for every max_iterations >= 0 and every sequence of certificate
\* objectives, train_lyapunov_on_samples returns normally with the caller's
\* network set to a snapshot captured before: a best snapshot exists at the
\* end of the run, also when max_iterations is 0.
C26_ReturnsNormallyWithSnapshot ==
    pc \in {"returned", "raised"} =>
        /\ pc = "returned"
        /\ best_relu /= None
        /\ relu \in CapturedParameters

\* C27: the network train_lyapunov_on_samples leaves is always one whose
\* certificate objectives were evaluated: it holds the parameters of the
\* start of the earliest iteration whose mip_loss is the smallest of all
\* evaluated iterations, whatever the optimizer steps after that iteration
\* produced, the final one included.
C27_LeavesEvaluatedBestNetwork ==
    pc \in {"returned", "raised"} =>
        /\ eval_log /= <<>>
        /\ relu \in CapturedParameters
        /\ relu = eval_log[EarliestBest].relu

(***************************************************************************)
(* Claims about the first evaluation of train_with_line_search             *)
(***************************************************************************)
\* a call of train_with_line_search that got past its assertions has ended
LineSearchEnded ==
    \/ pc = "returned" /\ result /= None /\ DOMAIN result = {"converged"}
    \/ pc = "raised" /\ result \in {<<"IndexError">>, <<"UnboundLocalError">>}

\* C28: train_with_line_search never tests the objectives of its initial
\* evaluation for convergence: it does not return True before the optimizer
\* has taken a step, and with max_iterations <= 1 it returns False after a
\* single evaluation of the loss, whatever the objectives are.
C28_InitialEvaluationNotTested ==
    LineSearchEnded =>
        /\ pc = "returned" /\ result.converged => num_steps >= 1
        /\ self.max_iterations <= 1 =>
              /\ pc = "returned"
              /\ ~result.converged
              /\ num_loss_evals = 1
              /\ num_steps = 0

(***************************************************************************)
(* TrainValueApproximator.train_with_cost_to_go (lines 626-650).  The      *)
(* object holds max_epochs and convergence_tolerance; the network is relu, *)
(* the epoch is iter_count, ret is the local loss (None while unbound),    *)
(* and eval_log holds the loss of every epoch.  Losses are in units of     *)
(* 1 / MeanScale.                                                          *)
(***************************************************************************)
MaxEpochs == 3         \* largest max_epochs
MaxValueSamples == 2   \* most pairs in x0_value_samples

\* the cost-to-go values of the samples
ValueVals == {0, 2}

\* the convergence tolerances, in units of 1 / MeanScale
ToleranceVals == {0, MeanScale}

\* lines 639-645: MSELoss of network(x) - network(x*) + lambda |x - x*|_1
\* against the cost-to-go
ValueLoss(theta, x0_value_samples, V_lambda, x_equilibrium) ==
    (MeanScale * SumSeq([i \in 1..Len(x0_value_samples) |->
        (LyapunovValue(theta, x0_value_samples[i][1], x_equilibrium, V_lambda)
            - x0_value_samples[i][2]) ^ 2]))
        \div Len(x0_value_samples)

\* line 646
ValueConvergedTest(loss, convergence_tolerance) == loss <= convergence_tolerance

InitValue ==
    /\ relu \in ThetaVals
    /\ pc = "idle"
    /\ args = None
    /\ oracle = None
    /\ ret = None
    /\ IdleTrainVars
    /\ IdleOnSamplesVars
    /\ \E n \in 0..MaxEpochs, tol \in ToleranceVals :
          self = [max_epochs |-> n, convergence_tolerance |-> tol]

\* lines 626-636: the samples are stacked, the optimizer is made
ValueCall ==
    /\ pc \in {"idle", "returned", "raised"}
    /\ num_calls < MaxCalls
    /\ \E x0_value_samples \in SeqsUpTo(StateVals \X ValueVals, 1, MaxValueSamples) :
          args' = [x0_value_samples |-> x0_value_samples,
                   V_lambda |-> 1,
                   x_equilibrium |-> 0]
    /\ iter_count' = 0
    /\ ret' = None
    /\ result' = None
    /\ eval_log' = <<>>
    /\ num_calls' = num_calls + 1
    /\ relu_at_call' = relu
    /\ num_steps' = 0
    /\ num_loss_evals' = 0
    /\ pc' = "value_loop"
    /\ UNCHANGED <<self, relu, oracle, positivity_state_samples,
                   derivative_state_samples, derivative_state_samples_next,
                   losses, lyapunov_positivity_mip_costs,
                   lyapunov_derivative_mip_costs, project_gradient_mode,
                   grad_log, state_samples_next, best_loss, best_relu,
                   num_increasing_iterations, previous_mip_loss, mip_loss>>

\* lines 637-645: zero_grad and the loss of the epoch
ValueEvaluateLoss ==
    /\ pc = "value_loop"
    /\ iter_count < self.max_epochs
    /\ ret' = Some(ValueLoss(relu, args.x0_value_samples, args.V_lambda,
                             args.x_equilibrium))
    /\ eval_log' = Append(eval_log, [relu |-> relu, loss |-> ret'[1]])
    /\ num_loss_evals' = num_loss_evals + 1
    /\ pc' = "value_check"
    /\ UNCHANGED <<self, relu, args, oracle, iter_count,
                   positivity_state_samples, derivative_state_samples,
                   derivative_state_samples_next, losses,
                   lyapunov_positivity_mip_costs,
                   lyapunov_derivative_mip_costs, project_gradient_mode,
                   result, num_calls, relu_at_call, num_steps, grad_log,
                   state_samples_next, best_loss, best_relu,
                   num_increasing_iterations, previous_mip_loss, mip_loss>>

\* lines 646-647: return True and the loss
ValueConverged ==
    /\ pc = "value_check"
    /\ ValueConvergedTest(ret[1], self.convergence_tolerance)
    /\ result' = [converged |-> TRUE, loss |-> ret[1]]
    /\ pc' = "returned"
    /\ UNCHANGED <<self, relu, args, oracle, ret, iter_count,
                   positivity_state_samples, derivative_state_samples,
                   derivative_state_samples_next, losses,
                   lyapunov_positivity_mip_costs,
                   lyapunov_derivative_mip_costs, project_gradient_mode,
                   num_calls, relu_at_call, num_steps, num_loss_evals,
                   grad_log>>
    /\ UNCHANGED onSamplesVars

\* lines 648-649: loss.backward(), optimizer.step(), the next epoch
ValueOptimizerStep ==
    /\ pc = "value_check"
    /\ ~ValueConvergedTest(ret[1], self.convergence_tolerance)
    /\ relu' \in ThetaVals
    /\ num_steps' = num_steps + 1
    /\ iter_count' = iter_count + 1
    /\ pc' = "value_loop"
    /\ UNCHANGED <<self, args, oracle, ret, positivity_state_samples,
                   derivative_state_samples, derivative_state_samples_next,
                   losses, lyapunov_positivity_mip_costs,
                   lyapunov_derivative_mip_costs, project_gradient_mode,
                   result, num_calls, relu_at_call, num_loss_evals, grad_log>>
    /\ UNCHANGED onSamplesVars

\* lines 637, 650: range(max_epochs) is used up, return False and the loss
ValueExhausted ==
    /\ pc = "value_loop"
    /\ ~(iter_count < self.max_epochs)
    /\ ret /= None
    /\ result' = [converged |-> FALSE, loss |-> ret[1]]
    /\ pc' = "returned"
    /\ UNCHANGED <<self, relu, args, oracle, ret, iter_count,
                   positivity_state_samples, derivative_state_samples,
                   derivative_state_samples_next, losses,
                   lyapunov_positivity_mip_costs,
                   lyapunov_derivative_mip_costs, project_gradient_mode,
                   num_calls, relu_at_call, num_steps, num_loss_evals,
                   grad_log>>
    /\ UNCHANGED onSamplesVars

\* line 650 with loss never assigned: UnboundLocalError
ValueExhaustedUnbound ==
    /\ pc = "value_loop"
    /\ ~(iter_count < self.max_epochs)
    /\ ret = None
    /\ result' = <<"UnboundLocalError">>
    /\ pc' = "raised"
    /\ UNCHANGED <<self, relu, args, oracle, ret, iter_count,
                   positivity_state_samples, derivative_state_samples,
                   derivative_state_samples_next, losses,
                   lyapunov_positivity_mip_costs,
                   lyapunov_derivative_mip_costs, project_gradient_mode,
                   num_calls, relu_at_call, num_steps, num_loss_evals,
                   grad_log>>
    /\ UNCHANGED onSamplesVars

NextValue ==
    \/ ValueCall
    \/ ValueEvaluateLoss
    \/ ValueConverged
    \/ ValueOptimizerStep
    \/ ValueExhausted
    \/ ValueExhaustedUnbound

SpecValue == InitValue /\ [][NextValue]_vars

(***************************************************************************)
(* Claims about train_with_cost_to_go                                      *)
(***************************************************************************)
\* the epochs (indices of eval_log) whose loss is within the tolerance
EpochsWithinTolerance ==
    {k \in 1..Len(eval_log) : eval_log[k].loss <= self.convergence_tolerance}

\* C29: train_with_cost_to_go returns (True, loss) at the first epoch whose
\* loss is <= convergence_tolerance, without an optimizer step in that
\* epoch, and otherwise (False, loss) after exactly max_epochs optimizer
\* steps, the loss being the one computed before the last step; it returns
\* a result for every max_epochs >= 0.
C29_CostToGoResult ==
    pc \in {"returned", "raised"} =>
        /\ pc = "returned"
        /\ IF result.converged
           THEN /\ EpochsWithinTolerance = {Len(eval_log)}
                /\ result.loss = eval_log[Len(eval_log)].loss
                /\ num_steps = Len(eval_log) - 1
           ELSE /\ EpochsWithinTolerance = {}
                /\ num_steps = self.max_epochs
                /\ Len(eval_log) = self.max_epochs
                /\ result.loss = eval_log[self.max_epochs].loss

(***************************************************************************)
(* ValueFunction.traj_opt_constraint (value_to_optimization.py, lines      *)
(* 133-373).  A matrix is modelled by its shape, a vector by its length;   *)
(* the object holds, for each bound and endpoint, None or the length of    *)
(* the vector that was set, and the shapes of the matrices its system      *)
(* returns from get_dyn_in and get_dyn_eq.  The costs are the ones of      *)
(* __init__ (None).                                                        *)
(***************************************************************************)
MaxHorizon == 3   \* largest N
MaxDim == 2       \* largest xdim and udim
MaxDyn == 2       \* largest number of rows of the dynamics constraints

\* the shape of a matrix an operation of torch refuses to build
ShapeError == [rows |-> -1, cols |-> -1]

\* torch.zeros(r, c), torch.eye(r, c)
Zeros(r, c) == [rows |-> r, cols |-> c]

\* torch.cat((a, b), 0)
Cat0(a, b) ==
    IF a /= ShapeError /\ b /= ShapeError /\ a.cols = b.cols
    THEN [rows |-> a.rows + b.rows, cols |-> a.cols]
    ELSE ShapeError

\* a[:, lo:hi]
ColSlice(a, lo, hi) == [rows |-> a.rows, cols |-> Max(Min(hi, a.cols) - lo, 0)]

\* torch.cat((torch.ones(xdim), torch.zeros(udim))).repeat(N).type(torch.bool)
\* for of_state, and with ones and zeros exchanged otherwise
BoundMask(of_state, xdim, udim, N) ==
    [k \in 1..(N * (xdim + udim)) |->
        IF of_state THEN (k - 1) % (xdim + udim) < xdim
        ELSE (k - 1) % (xdim + udim) >= xdim]

\* a[mask, :]
MaskRows(a, mask) ==
    IF Len(mask) = a.rows
    THEN [rows |-> Cardinality({k \in 1..Len(mask) : mask[k]}), cols |-> a.cols]
    ELSE ShapeError

\* a faulty variant: with only the state bound set, Ain3 is padded as for an
\* input bound
BoundBlocks_PadsInputRows(x_b, u_b, N, xdim, udim, alphadim) ==
    LET eye == Zeros(N * (xdim + udim), N * (xdim + udim))
    IN  IF x_b /= None /\ u_b /= None
        THEN [A |-> eye, rhs |-> (x_b[1] + u_b[1]) * N,
              Ain3_pad |-> Zeros(N * (xdim + udim), alphadim)]
        ELSE IF x_b /= None
        THEN [A |-> MaskRows(eye, BoundMask(TRUE, xdim, udim, N)),
              rhs |-> x_b[1] * N,
              Ain3_pad |-> Zeros(N * udim, alphadim)]
        ELSE IF u_b /= None
        THEN [A |-> MaskRows(eye, BoundMask(FALSE, xdim, udim, N)),
              rhs |-> u_b[1] * N,
              Ain3_pad |-> Zeros(N * udim, alphadim)]
        ELSE [A |-> Zeros(0, N * (xdim + udim)), rhs |-> 0,
              Ain3_pad |-> Zeros(0, alphadim)]

\* lines 298-320 for the upper bounds and 322-344 for the lower bounds: the
\* matrix of the bound, its right-hand side, the rows appended to Ain3
BoundBlocks(x_b, u_b, N, xdim, udim, alphadim) ==
    LET eye == Zeros(N * (xdim + udim), N * (xdim + udim))
    IN  IF x_b /= None /\ u_b /= None
        THEN [A |-> eye, rhs |-> (x_b[1] + u_b[1]) * N,
              Ain3_pad |-> Zeros(N * (xdim + udim), alphadim)]
        ELSE IF x_b /= None
        THEN [A |-> MaskRows(eye, BoundMask(TRUE, xdim, udim, N)),
              rhs |-> x_b[1] * N,
              Ain3_pad |-> Zeros(N * xdim, alphadim)]
        ELSE IF u_b /= None
        THEN [A |-> MaskRows(eye, BoundMask(FALSE, xdim, udim, N)),
              rhs |-> u_b[1] * N,
              Ain3_pad |-> Zeros(N * udim, alphadim)]
        ELSE [A |-> Zeros(0, N * (xdim + udim)), rhs |-> 0,
              Ain3_pad |-> Zeros(0, alphadim)]

\* lines 170-373
traj_opt_constraint(slf) ==
    LET N == slf.N
        xdim == slf.sys.Ain1_dyn.cols
        udim == slf.sys.Ain2_dyn.cols
        sdim == (xdim + udim) * N - xdim
        adim == slf.sys.Ain5_dyn.cols
        alphadim == adim * N
        \* lines 190-202
        num_in_dyn == slf.sys.rhs_in_dyn
        Ain == Zeros((N - 1) * num_in_dyn, N * (xdim + udim))
        Ain3_dyn == Zeros((N - 1) * num_in_dyn, alphadim)
        rhs_in_dyn == (N - 1) * num_in_dyn
        \* lines 204-216
        num_eq_dyn == slf.sys.rhs_eq_dyn
        Aeq == Zeros((N - 1) * num_eq_dyn, N * (xdim + udim))
        Aeq1_dyn == ColSlice(Aeq, 0, xdim)
        Aeq2_dyn == ColSlice(Aeq, xdim, Aeq.cols)
        Aeq3_dyn == Zeros((N - 1) * num_eq_dyn, alphadim)
        rhs_eq_dyn == (N - 1) * num_eq_dyn
        \* lines 298-344
        up == BoundBlocks(slf.x_up, slf.u_up, N, xdim, udim, alphadim)
        lo == BoundBlocks(slf.x_lo, slf.u_lo, N, xdim, udim, alphadim)
        \* lines 346-348
        Ain1 == Cat0(Cat0(ColSlice(Ain, 0, xdim), ColSlice(up.A, 0, xdim)),
                     ColSlice(lo.A, 0, xdim))
        Ain2 == Cat0(Cat0(ColSlice(Ain, xdim, Ain.cols),
                          ColSlice(up.A, xdim, up.A.cols)),
                     ColSlice(lo.A, xdim, lo.A.cols))
        Ain3 == Cat0(Cat0(Ain3_dyn, up.Ain3_pad), lo.Ain3_pad)
        rhs_in == rhs_in_dyn + up.rhs + lo.rhs
        \* lines 352-358
        Aeq1_x0 == IF slf.x0 /= None THEN Cat0(Aeq1_dyn, Zeros(xdim, xdim)) ELSE Aeq1_dyn
        Aeq2_x0 == IF slf.x0 /= None THEN Cat0(Aeq2_dyn, Zeros(xdim, sdim)) ELSE Aeq2_dyn
        Aeq3_x0 == IF slf.x0 /= None THEN Cat0(Aeq3_dyn, Zeros(xdim, alphadim)) ELSE Aeq3_dyn
        rhs_eq_x0 == IF slf.x0 /= None THEN rhs_eq_dyn + slf.x0[1] ELSE rhs_eq_dyn
        \* lines 362-370
        Aeq1 == IF slf.xN /= None THEN Cat0(Aeq1_x0, Zeros(xdim, xdim)) ELSE Aeq1_x0
        Aeq2 == IF slf.xN /= None THEN Cat0(Aeq2_x0, Zeros(xdim, sdim)) ELSE Aeq2_x0
        Aeq3 == IF slf.xN /= None THEN Cat0(Aeq3_x0, Zeros(xdim, alphadim)) ELSE Aeq3_x0
        rhs_eq == IF slf.xN /= None THEN rhs_eq_x0 + slf.xN[1] ELSE rhs_eq_x0
    IN  [Ain1 |-> Ain1, Ain2 |-> Ain2, Ain3 |-> Ain3, rhs_in |-> rhs_in,
         Aeq1 |-> Aeq1, Aeq2 |-> Aeq2, Aeq3 |-> Aeq3, rhs_eq |-> rhs_eq,
         Q2 |-> Zeros(sdim, sdim), Q3 |-> Zeros(alphadim, alphadim),
         q2 |-> sdim, q3 |-> alphadim]

\* what get_dyn_in and get_dyn_eq of a system with xdim states, udim inputs
\* and adim binaries return
DynShapes(xdim, udim, adim, num_in_dyn, num_eq_dyn) ==
    [Ain1_dyn |-> Zeros(num_in_dyn, xdim), Ain2_dyn |-> Zeros(num_in_dyn, udim),
     Ain3_dyn |-> Zeros(num_in_dyn, xdim), Ain4_dyn |-> Zeros(num_in_dyn, udim),
     Ain5_dyn |-> Zeros(num_in_dyn, adim), rhs_in_dyn |-> num_in_dyn,
     Aeq1_dyn |-> Zeros(num_eq_dyn, xdim), Aeq2_dyn |-> Zeros(num_eq_dyn, udim),
     Aeq3_dyn |-> Zeros(num_eq_dyn, xdim), Aeq4_dyn |-> Zeros(num_eq_dyn, udim),
     Aeq5_dyn |-> Zeros(num_eq_dyn, adim), rhs_eq_dyn |-> num_eq_dyn]

\* a vector of n entries that was set, or None
OptionalVector(n) == {None, Some(n)}

\* a ValueFunction after __init__ and set_constraints
InitTrajOpt ==
    /\ relu = 1
    /\ pc = "traj_opt_constraint"
    /\ args = None
    /\ oracle = None
    /\ ret = None
    /\ IdleTrainVars
    /\ IdleOnSamplesVars
    /\ \E N \in 2..MaxHorizon, xdim \in 1..MaxDim, udim \in 1..MaxDim, num_in_dyn \in 1..MaxDyn, num_eq_dyn \in 1..MaxDyn :
          \E x_lo \in OptionalVector(xdim), x_up \in OptionalVector(xdim), u_lo \in OptionalVector(udim), u_up \in OptionalVector(udim), x0 \in OptionalVector(xdim), xN \in OptionalVector(xdim) :
              self = [sys |-> DynShapes(xdim, udim, 1, num_in_dyn, num_eq_dyn),
                      N |-> N, x_lo |-> x_lo, x_up |-> x_up, u_lo |-> u_lo,
                      u_up |-> u_up, x0 |-> x0, xN |-> xN]

\* one call of traj_opt_constraint
TrajOptConstraintCall ==
    /\ pc = "traj_opt_constraint"
    /\ ret' = traj_opt_constraint(self)
    /\ pc' = "traj_opt_returned"
    /\ UNCHANGED <<self, relu, args, oracle>>
    /\ UNCHANGED trainVars
    /\ UNCHANGED onSamplesVars

NextTrajOpt == TrajOptConstraintCall

SpecTrajOpt == InitTrajOpt /\ [][NextTrajOpt]_vars

(***************************************************************************)
(* Claims about traj_opt_constraint                                        *)
(***************************************************************************)
\* 1 for a vector that is set, 0 for None
Present(v) == IF v /= None THEN 1 ELSE 0

\* C30: for every horizon N >= 2 and every combination of present and
\* absent bounds x_lo, x_up, u_lo, u_up and endpoints x0, xN,
\* traj_opt_constraint returns Ain1, Ain2, Ain3 and rhs_in with
\* (N-1)*num_in_dyn + N*xdim per present state bound + N*udim per present
\* input bound rows each, and Aeq1, Aeq2, Aeq3 and rhs_eq with
\* (N-1)*num_eq_dyn + xdim per endpoint that is set rows each.
C30_ConstraintRowCounts ==
    pc = "traj_opt_returned" =>
        LET N == self.N
            xdim == self.sys.Ain1_dyn.cols
            udim == self.sys.Ain2_dyn.cols
            rows_in == (N - 1) * self.sys.rhs_in_dyn
                           + N * xdim * (Present(self.x_lo) + Present(self.x_up))
                           + N * udim * (Present(self.u_lo) + Present(self.u_up))
            rows_eq == (N - 1) * self.sys.rhs_eq_dyn
                           + xdim * (Present(self.x0) + Present(self.xN))
        IN  /\ ret.Ain1.rows = rows_in
            /\ ret.Ain2.rows = rows_in
            /\ ret.Ain3.rows = rows_in
            /\ ret.rhs_in = rows_in
            /\ ret.Aeq1.rows = rows_eq
            /\ ret.Aeq2.rows = rows_eq
            /\ ret.Aeq3.rows = rows_eq
            /\ ret.rhs_eq = rows_eq

\* a call with an upper bound on the state only, a lower bound on the input
\* only and both endpoints, on a system with more states than inputs
C30_Witness ==
    /\ pc = "traj_opt_returned"
    /\ self.x_up /= None /\ self.u_up = None
    /\ self.x_lo = None /\ self.u_lo /= None
    /\ self.x0 /= None /\ self.xN /= None
    /\ self.N = 3
    /\ self.sys.Ain1_dyn.cols = 2
    /\ self.sys.Ain2_dyn.cols = 1
    /\ ret.Ain3.rows = 2 * self.sys.rhs_in_dyn + 6 + 3
    /\ ret.Aeq2.cols = 7

====
